---- MODULE Spec2Model ----
(***************************************************************************)
(* Model of RoadmapService.get_step_guide and its background task          *)
(* RoadmapService._wait_and_save_guide (src/src/roadmap/service.py): the   *)
(* cache check, the replay of a stored guide, the live relay of the        *)
(* model's token stream, the asyncio.Event that ends the wait of the       *)
(* background task, and the write of the joined tokens to the step row;    *)
(* and of RoadmapService.call_roadmap_assistant, the same relay without    *)
(* the list, the event and the task; of the service calls that create,   *)
(* change and delete roadmaps, steps and learning resources; and of        *)
(* UserService.create_or_update_user (src/src/auth/service.py).  Spec and  *)
(* FairSpec run the guide requests, AssistSpec the assistant calls,        *)
(* CrudSpec the other calls of RoadmapService and UserSpec the logins.     *)
(*                                                                         *)
(* Text is a sequence of one-character strings.  The character written     *)
(* "U+AC00" stands for one non-ASCII character (the chains are asked for   *)
(* korean text).  The code runs on one asyncio event loop: a coroutine     *)
(* keeps the loop from one await (or yield) to the next, which the         *)
(* variable loop records.                                                  *)
(***************************************************************************)
EXTENDS Integers, Sequences, FiniteSets, TLC

\* ---------------------------------------------------------------- bounds
\* chunks the chain delivers in one generation, at most
MaxTokens == 2

\* the requests of one behaviour; they may overlap in time
Reqs == {1, 2}

\* ------------------------------------------------------------- constants
\* a NULL column / Python None (no text is equal to it)
NULL == <<"<NULL>">>
\* collected_tokens of a request that never allocated the list
NoTokens == <<NULL>>
\* nobody holds the event loop
Idle == [co |-> "none", r |-> 0]

StepUids == {"s1", "s2"}
RoadmapUids == {"m1", "m2"}

\* KakaoUser.unique_id of the users who hold a token.  A token is issued at
\* login, which stores the user, and no code deletes a user: the row of a
\* caller exists
Users == {"u1", "u2"}
NoUser == "none"
\* the unique ids of all roadmaps, steps and learning resources: those of the
\* rows stored at the start and those nanoid.generate hands to a call
RoadmapIds == {"m1", "m2", "m3", "m4"}
StepIds == {"s1", "s2", "s3", "s4"}
ResourceIds == {"r1", "r2", "r3"}
\* nanoid.generate(size=10) in call r: an id no other row has
NewRoadmapUid == [r \in Reqs |-> IF r = 1 THEN "m3" ELSE "m4"]
NewStepUid == [r \in Reqs |-> IF r = 1 THEN "s3" ELSE "s4"]
NewResourceUid == [r \in Reqs |-> IF r = 1 THEN "r2" ELSE "r3"]
\* a NULL sub_roadmap_uid
NoRoadmap == "none"
\* RoadmapStep.roadmap_id: the roadmap a step belongs to (a generated
\* roadmap is given one step)
RoadmapOf == [s \in StepIds |->
                 IF s = "s1" THEN "m1" ELSE IF s = "s2" THEN "m2"
                 ELSE IF s = "s3" THEN "m3" ELSE "m4"]
\* `count() >= 3` of _check_roadmap_creator
RoadmapQuota == 3

\* chunk.content values of the step guide chain: plain text, text that
\* json.dumps escapes, and the empty fragment
TokA == <<"H", "i">>
TokB == <<"\"", "\\", "n", "\n", "U+AC00">>
TokE == <<>>
TokenSet == {TokA, TokB, TokE}

\* the emission sequences of the chain: TokA and TokB in turn, or one empty
\* fragment; every prefix of one is one
Outputs ==
    { [i \in 1..n |-> IF i % 2 = 1 THEN TokA ELSE TokB] : n \in 0..MaxTokens }
        \cup { <<TokE>> }

\* str(e) of an exception raised by the chain
ErrMsgs == { <<"E", "\"">> }

\* guide column of the step row before the first request
InitGuides == { NULL, <<"O", "\\", "k">> }

\* ------------------------------------------------------ text and framing
RECURSIVE JoinReversed(_)
\* a join that puts the later fragment first
JoinReversed(tokens) ==
    IF tokens = <<>> THEN <<>> ELSE JoinReversed(Tail(tokens)) \o Head(tokens)

RECURSIVE Join(_)
\* "".join(tokens)
Join(tokens) ==
    IF tokens = <<>> THEN <<>> ELSE Head(tokens) \o Join(Tail(tokens))

\* a dump that writes every character as it is
EscapeCharRaw(c) == <<c>>

\* json.dumps of one character inside a string (ensure_ascii=True)
EscapeChar(c) ==
    CASE c = "\"" -> <<"\\", "\"">>
      [] c = "\\" -> <<"\\", "\\">>
      [] c = "\n" -> <<"\\", "n">>
      [] c = "U+AC00" -> <<"\\", "u", "a", "c", "0", "0">>
      [] OTHER -> <<c>>

RECURSIVE Escape(_)
Escape(s) ==
    IF s = <<>> THEN <<>> ELSE EscapeChar(Head(s)) \o Escape(Tail(s))

\* json.dumps({key: s}) : {"key": "s"}
JsonDumps(key, s) ==
    <<"{", "\"">> \o key \o <<"\"", ":", " ", "\"">> \o Escape(s) \o <<"\"", "}">>

DataPrefix == <<"d", "a", "t", "a", ":", " ">>
EventEnd == <<"\n", "\n">>

TokenKey == <<"t", "o", "k", "e", "n">>
ErrorKey == <<"e", "r", "r", "o", "r">>

\* f"data: {json.dumps({key: s})}\n\n"
Frame(key, s) == DataPrefix \o JsonDumps(key, s) \o EventEnd

\* --- the client's side: json.loads of the payload of one event
RECURSIVE ReadString(_, _, _)
\* reads a JSON string body from position i (just after the opening quote);
\* returns the decoded text and the position after the closing quote
ReadString(ev, i, out) ==
    IF i > Len(ev) THEN [str |-> out, next |-> 0]
    ELSE IF ev[i] = "\"" THEN [str |-> out, next |-> i + 1]
    ELSE IF ev[i] = "\\" /\ i + 1 <= Len(ev) THEN
        IF ev[i + 1] = "n" THEN ReadString(ev, i + 2, Append(out, "\n"))
        ELSE IF ev[i + 1] = "u" /\ i + 5 <= Len(ev) THEN
            ReadString(ev, i + 6,
                       Append(out, IF SubSeq(ev, i + 2, i + 5) = <<"a", "c", "0", "0">>
                                   THEN "U+AC00" ELSE "?"))
        ELSE ReadString(ev, i + 2, Append(out, ev[i + 1]))
    ELSE ReadString(ev, i + 1, Append(out, ev[i]))

BadEvent == [key |-> <<>>, value |-> <<>>, ok |-> FALSE]

\* the single field of the JSON object carried by a wire event
ParseEvent(ev) ==
    LET p == Len(DataPrefix) IN
    IF Len(ev) < p + 2 \/ SubSeq(ev, 1, p) # DataPrefix
       \/ ev[p + 1] # "{" \/ ev[p + 2] # "\""
    THEN BadEvent
    ELSE
      LET k == ReadString(ev, p + 3, <<>>) IN
      IF k.next = 0 \/ k.next + 2 > Len(ev)
         \/ SubSeq(ev, k.next, k.next + 2) # <<":", " ", "\"">>
      THEN BadEvent
      ELSE
        LET v == ReadString(ev, k.next + 3, <<>>) IN
        IF v.next = 0 \/ SubSeq(ev, v.next, Len(ev)) # <<"}">> \o EventEnd
        THEN BadEvent
        ELSE [key |-> k.str, value |-> v.str, ok |-> TRUE]

IsTokenEvent(ev) == ParseEvent(ev).ok /\ ParseEvent(ev).key = TokenKey
IsErrorEvent(ev) == ParseEvent(ev).ok /\ ParseEvent(ev).key = ErrorKey

RECURSIVE TokenFields(_)
\* the `token` fields of the events of a stream, in order
TokenFields(evs) ==
    IF evs = <<>> THEN <<>>
    ELSE IF IsTokenEvent(Head(evs))
         THEN <<ParseEvent(Head(evs)).value>> \o TokenFields(Tail(evs))
         ELSE TokenFields(Tail(evs))

RECURSIVE Concat(_)
\* the texts of a sequence, one after the other
Concat(texts) ==
    IF texts = <<>> THEN <<>> ELSE Head(texts) \o Concat(Tail(texts))

\* what the client reads: its token fields concatenated
ClientText(evs) == Concat(TokenFields(evs))

\* the number of `error` events of a stream
ErrorCount(evs) == Cardinality({i \in 1..Len(evs) : IsErrorEvent(evs[i])})

\* ------------------------------------------------------------------ state
VARIABLES
    stepRows,   \* unique ids of the rows of roadmap_steps
    guide,      \* guide column of each step row
    stepUid,    \* per request: the step_uid argument
    kind,       \* per request: "idle", "notfound", "hit" or "live"
    raised,     \* per request: the exception get_step_guide raised
    cached,     \* per request: step.guide of the loaded step
    relaypc,    \* per request: position of the returned async generator
    pos,        \* per request: characters replayed by generate_guide_in_db
    cur,        \* per request: chunk.content / str(e) in hand
    tokens,     \* per request: collected_tokens
    signal,     \* per request: streaming_completed ("none", "clear", "set")
    setCount,   \* per request: calls of streaming_completed.set()
    genCalls,   \* per request: calls of step_guide_chain.astream
    source,     \* per request: the chain's stream ("none", "open", "exhausted", "raised")
    emitted,    \* per request: the chunks the chain has delivered
    received,   \* per request: wire events handed to the consumer
    taskpc,     \* per request: position of _wait_and_save_guide
    complete,   \* per request: complete_guide of the task
    session,    \* per request: the task's own db session
    outcome,    \* per request: how the task ended
    taskCount,  \* per request: calls of asyncio.create_task
    writeCount, \* per request: commits of step.guide by the task
    reqdb,      \* per request: the session of get_db ("none", "open", "closed")
    roadmapRows, \* unique ids of the rows of roadmaps
    auid,       \* per assistant call: the roadmap_uid argument
    akind,      \* per assistant call: "idle", "notfound" or "stream"
    araised,    \* per assistant call: the exception call_roadmap_assistant raised
    apc,        \* per assistant call: position of the returned async generator
    asource,    \* per assistant call: the assistant chain's stream
    aemitted,   \* per assistant call: the chunks the chain has delivered
    areceived,  \* per assistant call: wire events handed to the consumer
    roadmapUser, \* user_id column of each roadmap row (its creator)
    bookmark,   \* is_bookmarked column of each step row
    subRoadmap, \* sub_roadmap_uid column of each step row
    relRows,    \* committed rows of roadmap_subroadmap: <<roadmap_uid, subroadmap_uid>>
    tagRows,    \* steps whose tag rows are stored
    resRows,    \* rows of learning_resources: <<unique_id, step>>
    userRows,   \* rows of kakao_users
    userCall,   \* arguments and result of the last create_or_update_user
    cop,        \* per service call: the operation called
    cuser,      \* per service call: the uid of the current user
    carg,       \* per service call: the roadmap, step or resource uid given
    cpc,        \* per service call: "idle", "model", "returned" or "done"
    cerr,       \* per service call: the exception that left the call
    cret,       \* per service call: the value returned
    clist,      \* per service call: the resource ids of the returned list
    cinvoked,   \* per service call: calls of a chain's ainvoke
    cowner,     \* per service call: roadmap.user_id of the loaded parent roadmap
    pendingRel, \* per service call: relation rows executed but not committed
    loop        \* the coroutine that holds the event loop

vars == <<stepRows, guide, stepUid, kind, raised, cached, relaypc, pos,
          cur, tokens, signal, setCount, genCalls, source, emitted, received,
          taskpc, complete, session, outcome, taskCount, writeCount, reqdb,
          roadmapRows, auid, akind, araised, apc, asource, aemitted,
          areceived, roadmapUser, bookmark, subRoadmap, relRows, tagRows,
          resRows, userRows, userCall, cop, cuser, carg, cpc, cerr, cret,
          clist, cinvoked, cowner, pendingRel, loop>>

dbVars == <<stepRows, guide, roadmapRows>>
callVars == <<stepUid, kind, raised, cached>>
reqVars == <<callVars, reqdb>>
relayVars == <<relaypc, pos, cur, tokens, signal, setCount, genCalls, source,
               emitted, received>>
taskVars == <<taskpc, complete, session, outcome, taskCount, writeCount>>
assistVars == <<auid, akind, araised, apc, asource, aemitted, areceived>>
tableVars == <<roadmapUser, bookmark, subRoadmap, relRows, tagRows, resRows>>
opVars == <<cop, cuser, carg, cpc, cerr, cret, clist, cinvoked, cowner,
            pendingRel>>
userVars == <<userRows, userCall>>
crudVars == <<tableVars, opVars, userVars>>

\* no exception
NoError == [type |-> "none", msg |-> ""]
\* Exception("Roadmap step not found")
StepNotFound == [type |-> "Exception", msg |-> "Roadmap step not found"]
\* EntityNotFoundException of get_roadmap_by_uid (its message is a korean
\* sentence that says the roadmap cannot be found)
RoadmapNotFound == [type |-> "EntityNotFoundException", msg |-> "roadmap not found"]

Relay(r) == [co |-> "relay", r |-> r]
Task(r) == [co |-> "task", r |-> r]

\* a test for None only: `if step.guide is not None:`
TruthyNotNone(g) == g # NULL

\* `if step.guide:` : neither None nor the empty string
Truthy(g) == g # NULL /\ g # <<>>

\* get_db: the session is closed by its finally block, which runs either when
\* the path function has returned (before the body is streamed) or when the
\* response is over, depending on the framework's handling of dependencies
\* with yield
DbAtReturn == {"open", "closed"}
CloseDb(r) == reqdb' = [reqdb EXCEPT ![r] = "closed"]

\* kakao_users.profile_image when none is given: the environment's
\* DEFAULT_PROFILE_IMAGE_URL
DefaultImage == "default.png"
\* the rows of the users who hold a token
TokenUsers ==
    { [kakao_id |-> "k1", uid |-> "u1", nickname |-> "ann", image |-> DefaultImage],
      [kakao_id |-> "k2", uid |-> "u2", nickname |-> "bob", image |-> DefaultImage] }
\* no create_or_update_user call yet
NoUserCall == [kakao_id |-> "", nickname |-> "", given |-> "", uid |-> "",
               image |-> ""]

\* no request, assistant call or service call has been made
RequestsInit ==
    /\ stepUid = [r \in Reqs |-> ""]
    /\ kind = [r \in Reqs |-> "idle"]
    /\ raised = [r \in Reqs |-> NoError]
    /\ cached = [r \in Reqs |-> NULL]
    /\ relaypc = [r \in Reqs |-> "none"]
    /\ pos = [r \in Reqs |-> 0]
    /\ cur = [r \in Reqs |-> NULL]
    /\ tokens = [r \in Reqs |-> NoTokens]
    /\ signal = [r \in Reqs |-> "none"]
    /\ setCount = [r \in Reqs |-> 0]
    /\ genCalls = [r \in Reqs |-> 0]
    /\ source = [r \in Reqs |-> "none"]
    /\ emitted = [r \in Reqs |-> <<>>]
    /\ received = [r \in Reqs |-> <<>>]
    /\ taskpc = [r \in Reqs |-> "none"]
    /\ complete = [r \in Reqs |-> NULL]
    /\ session = [r \in Reqs |-> "none"]
    /\ outcome = [r \in Reqs |-> "none"]
    /\ taskCount = [r \in Reqs |-> 0]
    /\ writeCount = [r \in Reqs |-> 0]
    /\ reqdb = [r \in Reqs |-> "none"]
    /\ auid = [r \in Reqs |-> ""]
    /\ akind = [r \in Reqs |-> "idle"]
    /\ araised = [r \in Reqs |-> NoError]
    /\ apc = [r \in Reqs |-> "none"]
    /\ asource = [r \in Reqs |-> "none"]
    /\ aemitted = [r \in Reqs |-> <<>>]
    /\ areceived = [r \in Reqs |-> <<>>]
    /\ loop = Idle
    /\ userCall = NoUserCall
    /\ cop = [r \in Reqs |-> "none"]
    /\ cuser = [r \in Reqs |-> NoUser]
    /\ carg = [r \in Reqs |-> ""]
    /\ cpc = [r \in Reqs |-> "idle"]
    /\ cerr = [r \in Reqs |-> "none"]
    /\ cret = [r \in Reqs |-> "none"]
    /\ clist = [r \in Reqs |-> {}]
    /\ cinvoked = [r \in Reqs |-> 0]
    /\ cowner = [r \in Reqs |-> NoUser]
    /\ pendingRel = [r \in Reqs |-> {}]

\* one roadmap of one step, whose guide may be stored already
Init ==
    /\ RequestsInit
    /\ stepRows = {"s1"}
    /\ guide \in {g \in [StepIds -> InitGuides] :
                      \A s \in StepIds \ {"s1"} : g[s] = NULL}
    /\ roadmapRows = {"m1"}
    /\ roadmapUser = [m \in RoadmapIds |-> IF m = "m1" THEN "u1" ELSE NoUser]
    /\ bookmark = [s \in StepIds |-> FALSE]
    /\ subRoadmap = [s \in StepIds |-> NoRoadmap]
    /\ relRows = {}
    /\ tagRows = {"s1"}
    /\ resRows = {}
    /\ userRows = TokenUsers

\* two roadmaps of one step each: the first is u1's, the second u1's or
\* u2's; the first step may be bookmarked and may have a learning resource.
\* No guide is stored.  roadmap_subroadmap is empty (no call commits a row
\* to it)
CrudInit ==
    /\ RequestsInit
    /\ stepRows = {"s1", "s2"}
    /\ guide = [s \in StepIds |-> NULL]
    /\ roadmapRows = {"m1", "m2"}
    /\ roadmapUser \in {f \in [RoadmapIds -> Users \cup {NoUser}] :
                           /\ f["m1"] = "u1" /\ f["m2"] \in Users
                           /\ f["m3"] = NoUser /\ f["m4"] = NoUser}
    /\ bookmark \in {b \in [StepIds -> BOOLEAN] :
                        \A s \in StepIds \ {"s1"} : ~b[s]}
    /\ subRoadmap = [s \in StepIds |-> NoRoadmap]
    /\ relRows = {}
    /\ tagRows = {"s1", "s2"}
    /\ resRows \in {{}, {<<"r1", "s1">>}}
    /\ userRows = TokenUsers

\* the guide rows of Init and an empty kakao_users table
UserInit ==
    /\ RequestsInit
    /\ stepRows = {"s1"}
    /\ guide = [s \in StepIds |-> NULL]
    /\ roadmapRows = {"m1"}
    /\ roadmapUser = [m \in RoadmapIds |-> IF m = "m1" THEN "u1" ELSE NoUser]
    /\ bookmark = [s \in StepIds |-> FALSE]
    /\ subRoadmap = [s \in StepIds |-> NoRoadmap]
    /\ relRows = {}
    /\ tagRows = {"s1"}
    /\ resRows = {}
    /\ userRows = {}

\* ------------------------------------------------- get_step_guide (call)
\* the requests arrive in the order of their numbers
CanCall(r) ==
    /\ loop = Idle /\ kind[r] = "idle"
    /\ \A q \in Reqs : q < r => kind[q] # "idle"

\* a lookup that is checked only after the list, the event and the task exist
GetStepGuideNotFoundLate(r, s) ==
    /\ CanCall(r)
    /\ s \notin stepRows
    /\ stepUid' = [stepUid EXCEPT ![r] = s]
    /\ kind' = [kind EXCEPT ![r] = "notfound"]
    /\ raised' = [raised EXCEPT ![r] = StepNotFound]
    /\ tokens' = [tokens EXCEPT ![r] = <<>>]
    /\ signal' = [signal EXCEPT ![r] = "clear"]
    /\ taskpc' = [taskpc EXCEPT ![r] = "created"]
    /\ taskCount' = [taskCount EXCEPT ![r] = taskCount[r] + 1]
    /\ CloseDb(r)
    /\ UNCHANGED <<dbVars, cached, relaypc, pos, cur, setCount, genCalls,
                   source, emitted, received, complete, session, outcome,
                   writeCount, loop>>
    /\ UNCHANGED <<assistVars, crudVars>>

\* the step query finds no row: raise Exception("Roadmap step not found")
GetStepGuideNotFound(r, s) ==
    /\ CanCall(r)
    /\ s \notin stepRows
    /\ stepUid' = [stepUid EXCEPT ![r] = s]
    /\ kind' = [kind EXCEPT ![r] = "notfound"]
    /\ raised' = [raised EXCEPT ![r] = StepNotFound]
    /\ CloseDb(r)
    /\ UNCHANGED <<dbVars, cached, relayVars, taskVars, loop>>
    /\ UNCHANGED <<assistVars, crudVars>>

\* a cache hit that is returned only after the task was created
GetStepGuideHitSpawn(r, s) ==
    /\ CanCall(r)
    /\ s \in stepRows /\ Truthy(guide[s])
    /\ stepUid' = [stepUid EXCEPT ![r] = s]
    /\ kind' = [kind EXCEPT ![r] = "hit"]
    /\ cached' = [cached EXCEPT ![r] = guide[s]]
    /\ tokens' = [tokens EXCEPT ![r] = <<>>]
    /\ signal' = [signal EXCEPT ![r] = "clear"]
    /\ taskpc' = [taskpc EXCEPT ![r] = "created"]
    /\ taskCount' = [taskCount EXCEPT ![r] = taskCount[r] + 1]
    /\ relaypc' = [relaypc EXCEPT ![r] = "unstarted"]
    /\ \E d \in DbAtReturn : reqdb' = [reqdb EXCEPT ![r] = d]
    /\ UNCHANGED <<dbVars, raised, pos, cur, setCount, genCalls, source,
                   emitted, received, complete, session, outcome, writeCount,
                   loop>>
    /\ UNCHANGED <<assistVars, crudVars>>

\* step.guide is set: return generate_guide_in_db()
GetStepGuideHit(r, s) ==
    /\ CanCall(r)
    /\ s \in stepRows /\ Truthy(guide[s])
    /\ stepUid' = [stepUid EXCEPT ![r] = s]
    /\ kind' = [kind EXCEPT ![r] = "hit"]
    /\ cached' = [cached EXCEPT ![r] = guide[s]]
    /\ relaypc' = [relaypc EXCEPT ![r] = "unstarted"]
    /\ \E d \in DbAtReturn : reqdb' = [reqdb EXCEPT ![r] = d]
    /\ UNCHANGED <<dbVars, raised, pos, cur, tokens, signal, setCount,
                   genCalls, source, emitted, received, taskVars, loop>>
    /\ UNCHANGED <<assistVars, crudVars>>

\* no guide yet: the list, the event, the task, return generate()
GetStepGuideLive(r, s) ==
    /\ CanCall(r)
    /\ s \in stepRows /\ ~Truthy(guide[s])
    /\ stepUid' = [stepUid EXCEPT ![r] = s]
    /\ kind' = [kind EXCEPT ![r] = "live"]
    /\ cached' = [cached EXCEPT ![r] = guide[s]]
    /\ tokens' = [tokens EXCEPT ![r] = <<>>]
    /\ signal' = [signal EXCEPT ![r] = "clear"]
    /\ taskpc' = [taskpc EXCEPT ![r] = "created"]
    /\ taskCount' = [taskCount EXCEPT ![r] = taskCount[r] + 1]
    /\ relaypc' = [relaypc EXCEPT ![r] = "unstarted"]
    /\ \E d \in DbAtReturn : reqdb' = [reqdb EXCEPT ![r] = d]
    /\ UNCHANGED <<dbVars, raised, pos, cur, setCount, genCalls, source, emitted,
                   received, complete, session, outcome, writeCount, loop>>
    /\ UNCHANGED <<assistVars, crudVars>>

GetStepGuide(r, s) ==
    \/ GetStepGuideNotFound(r, s)
    \/ GetStepGuideHit(r, s)
    \/ GetStepGuideLive(r, s)

\* --------------------------------------- generate_guide_in_db (cache hit)
\* a replay that yields the stored guide as one fragment
ReplayWhole(r) ==
    /\ loop = Idle /\ kind[r] = "hit"
    /\ relaypc[r] \in {"unstarted", "suspended"}
    /\ IF pos[r] = 0
       THEN /\ pos' = [pos EXCEPT ![r] = Len(cached[r])]
            /\ received' = [received EXCEPT ![r] =
                   Append(received[r], Frame(TokenKey, cached[r]))]
            /\ relaypc' = [relaypc EXCEPT ![r] = "suspended"]
       ELSE /\ relaypc' = [relaypc EXCEPT ![r] = "ended"]
            /\ UNCHANGED <<pos, received>>
    /\ IF relaypc'[r] = "ended" THEN CloseDb(r) ELSE UNCHANGED reqdb
    /\ UNCHANGED <<dbVars, callVars, cur, tokens, signal, setCount, genCalls,
                   source, emitted, taskVars, loop>>
    /\ UNCHANGED <<assistVars, crudVars>>

\* one __anext__ of the replay generator: `for chunk in step.guide` walks
\* the string one character at a time and yields one token event for each
ReplayNext(r) ==
    /\ loop = Idle /\ kind[r] = "hit"
    /\ relaypc[r] \in {"unstarted", "suspended"}
    /\ IF pos[r] < Len(cached[r])
       THEN /\ pos' = [pos EXCEPT ![r] = pos[r] + 1]
            /\ received' = [received EXCEPT ![r] =
                   Append(received[r], Frame(TokenKey, <<cached[r][pos[r] + 1]>>))]
            /\ relaypc' = [relaypc EXCEPT ![r] = "suspended"]
       ELSE /\ relaypc' = [relaypc EXCEPT ![r] = "ended"]
            /\ UNCHANGED <<pos, received>>
    /\ IF relaypc'[r] = "ended" THEN CloseDb(r) ELSE UNCHANGED reqdb
    /\ UNCHANGED <<dbVars, callVars, cur, tokens, signal, setCount, genCalls,
                   source, emitted, taskVars, loop>>
    /\ UNCHANGED <<assistVars, crudVars>>

\* ------------------------------------------------ generate() (live relay)
\* first __anext__: the try block is entered and astream is called
RelayStart(r) ==
    /\ loop = Idle /\ kind[r] = "live" /\ relaypc[r] = "unstarted"
    /\ genCalls' = [genCalls EXCEPT ![r] = genCalls[r] + 1]
    /\ source' = [source EXCEPT ![r] = "open"]
    /\ relaypc' = [relaypc EXCEPT ![r] = "await"]
    /\ UNCHANGED <<dbVars, reqVars, pos, cur, tokens, signal, setCount,
                   emitted, received, taskVars, loop>>
    /\ UNCHANGED <<assistVars, crudVars>>

\* a later __anext__: the generator resumes after the yield of line 306
RelayResume(r) ==
    /\ loop = Idle /\ kind[r] = "live" /\ relaypc[r] = "suspended"
    /\ relaypc' = [relaypc EXCEPT ![r] = "await"]
    /\ UNCHANGED <<dbVars, reqVars, pos, cur, tokens, signal, setCount,
                   genCalls, source, emitted, received, taskVars, loop>>
    /\ UNCHANGED <<assistVars, crudVars>>

\* the chain delivers a chunk: token = chunk.content
SourceChunk(r, tok) ==
    /\ loop = Idle /\ kind[r] = "live" /\ relaypc[r] = "await"
    /\ Append(emitted[r], tok) \in Outputs
    /\ emitted' = [emitted EXCEPT ![r] = Append(emitted[r], tok)]
    /\ cur' = [cur EXCEPT ![r] = tok]
    /\ relaypc' = [relaypc EXCEPT ![r] = "append"]
    /\ loop' = Relay(r)
    /\ UNCHANGED <<dbVars, reqVars, pos, tokens, signal, setCount, genCalls,
                   source, received, taskVars>>
    /\ UNCHANGED <<assistVars, crudVars>>

\* a relay that goes to its yield with the append still to come
RelayAppendLate(r) ==
    /\ loop = Relay(r) /\ relaypc[r] = "append"
    /\ relaypc' = [relaypc EXCEPT ![r] = "yield"]
    /\ UNCHANGED <<dbVars, reqVars, pos, cur, tokens, signal, setCount,
                   genCalls, source, emitted, received, taskVars, loop>>
    /\ UNCHANGED <<assistVars, crudVars>>

\* collected_tokens.append(token)
RelayAppend(r) ==
    /\ loop = Relay(r) /\ relaypc[r] = "append"
    /\ tokens' = [tokens EXCEPT ![r] = Append(tokens[r], cur[r])]
    /\ relaypc' = [relaypc EXCEPT ![r] = "yield"]
    /\ UNCHANGED <<dbVars, reqVars, pos, cur, signal, setCount, genCalls, source, emitted,
                   received, taskVars, loop>>
    /\ UNCHANGED <<assistVars, crudVars>>

\* yield f"data: {json.dumps({'token': token})}\n\n"
RelayYield(r) ==
    /\ loop = Relay(r) /\ relaypc[r] = "yield"
    /\ received' = [received EXCEPT ![r] = Append(received[r], Frame(TokenKey, cur[r]))]
    /\ relaypc' = [relaypc EXCEPT ![r] = "suspended"]
    /\ loop' = Idle
    /\ UNCHANGED <<dbVars, reqVars, pos, cur, tokens, signal, setCount,
                   genCalls, source, emitted, taskVars>>
    /\ UNCHANGED <<assistVars, crudVars>>

\* the chain is exhausted: the async for ends
SourceEnd(r) ==
    /\ loop = Idle /\ kind[r] = "live" /\ relaypc[r] = "await"
    /\ source' = [source EXCEPT ![r] = "exhausted"]
    /\ relaypc' = [relaypc EXCEPT ![r] = "set_ok"]
    /\ loop' = Relay(r)
    /\ UNCHANGED <<dbVars, reqVars, pos, cur, tokens, signal, setCount,
                   genCalls, emitted, received, taskVars>>
    /\ UNCHANGED <<assistVars, crudVars>>

\* a normal end that returns without setting the event
RelaySetOkSkip(r) ==
    /\ loop = Relay(r) /\ relaypc[r] = "set_ok"
    /\ relaypc' = [relaypc EXCEPT ![r] = "ended"]
    /\ loop' = Idle
    /\ CloseDb(r)
    /\ UNCHANGED <<dbVars, callVars, pos, cur, tokens, signal, setCount,
                   genCalls, source, emitted, received, taskVars>>
    /\ UNCHANGED <<assistVars, crudVars>>

\* streaming_completed.set() of line 309, then the generator returns
RelaySetOk(r) ==
    /\ loop = Relay(r) /\ relaypc[r] = "set_ok"
    /\ signal' = [signal EXCEPT ![r] = "set"]
    /\ setCount' = [setCount EXCEPT ![r] = setCount[r] + 1]
    /\ relaypc' = [relaypc EXCEPT ![r] = "ended"]
    /\ loop' = Idle
    /\ CloseDb(r)
    /\ UNCHANGED <<dbVars, callVars, pos, cur, tokens, genCalls, source,
                   emitted, received, taskVars>>
    /\ UNCHANGED <<assistVars, crudVars>>

\* a relay without the except block: the exception leaves the generator
SourceRaiseUncaught(r, msg) ==
    /\ loop = Idle /\ kind[r] = "live" /\ relaypc[r] = "await"
    /\ source' = [source EXCEPT ![r] = "raised"]
    /\ cur' = [cur EXCEPT ![r] = msg]
    /\ relaypc' = [relaypc EXCEPT ![r] = "raised"]
    /\ UNCHANGED <<dbVars, reqVars, pos, tokens, signal, setCount, genCalls,
                   emitted, received, taskVars, loop>>
    /\ UNCHANGED <<assistVars, crudVars>>

\* the chain raises an Exception: control enters the except block
SourceRaise(r, msg) ==
    /\ loop = Idle /\ kind[r] = "live" /\ relaypc[r] = "await"
    /\ source' = [source EXCEPT ![r] = "raised"]
    /\ cur' = [cur EXCEPT ![r] = msg]
    /\ relaypc' = [relaypc EXCEPT ![r] = "set_err"]
    /\ loop' = Relay(r)
    /\ UNCHANGED <<dbVars, reqVars, pos, tokens, signal, setCount, genCalls,
                   emitted, received, taskVars>>
    /\ UNCHANGED <<assistVars, crudVars>>

\* an except block that goes to its yield without setting the event
RelaySetErrSkip(r) ==
    /\ loop = Relay(r) /\ relaypc[r] = "set_err"
    /\ relaypc' = [relaypc EXCEPT ![r] = "yield_err"]
    /\ UNCHANGED <<dbVars, reqVars, pos, cur, tokens, signal, setCount,
                   genCalls, source, emitted, received, taskVars, loop>>
    /\ UNCHANGED <<assistVars, crudVars>>

\* streaming_completed.set() of line 313 (and the log of line 314)
RelaySetErr(r) ==
    /\ loop = Relay(r) /\ relaypc[r] = "set_err"
    /\ signal' = [signal EXCEPT ![r] = "set"]
    /\ setCount' = [setCount EXCEPT ![r] = setCount[r] + 1]
    /\ relaypc' = [relaypc EXCEPT ![r] = "yield_err"]
    /\ UNCHANGED <<dbVars, reqVars, pos, cur, tokens, genCalls, source, emitted, received,
                   taskVars, loop>>
    /\ UNCHANGED <<assistVars, crudVars>>

\* yield f"data: {json.dumps({'error': str(e)})}\n\n"
RelayYieldErr(r) ==
    /\ loop = Relay(r) /\ relaypc[r] = "yield_err"
    /\ received' = [received EXCEPT ![r] = Append(received[r], Frame(ErrorKey, cur[r]))]
    /\ relaypc' = [relaypc EXCEPT ![r] = "suspended_err"]
    /\ loop' = Idle
    /\ UNCHANGED <<dbVars, reqVars, pos, cur, tokens, signal, setCount,
                   genCalls, source, emitted, taskVars>>
    /\ UNCHANGED <<assistVars, crudVars>>

\* __anext__ after the error event: the except block ends, the generator returns
RelayFinish(r) ==
    /\ loop = Idle /\ kind[r] = "live" /\ relaypc[r] = "suspended_err"
    /\ relaypc' = [relaypc EXCEPT ![r] = "ended"]
    /\ CloseDb(r)
    /\ UNCHANGED <<dbVars, callVars, pos, cur, tokens, signal, setCount,
                   genCalls, source, emitted, received, taskVars, loop>>
    /\ UNCHANGED <<assistVars, crudVars>>

\* the consumer stops: the generator is never started, or it is closed at a
\* yield (GeneratorExit) or cancelled at the await (CancelledError); both are
\* BaseException, which `except Exception` does not catch, and there is no
\* finally block
Disconnect(r) ==
    /\ loop = Idle
    /\ relaypc[r] \in {"unstarted", "suspended", "await", "suspended_err"}
    /\ relaypc' = [relaypc EXCEPT ![r] = "closed"]
    /\ CloseDb(r)
    /\ UNCHANGED <<dbVars, callVars, pos, cur, tokens, signal, setCount,
                   genCalls, source, emitted, received, taskVars, loop>>
    /\ UNCHANGED <<assistVars, crudVars>>

\* ------------------------------------------------- _wait_and_save_guide
\* a task that reads the list on its first run, without the wait
TaskStartNoWait(r) ==
    /\ loop = Idle /\ taskpc[r] = "created"
    /\ taskpc' = [taskpc EXCEPT ![r] = "join"]
    /\ loop' = Task(r)
    /\ UNCHANGED <<dbVars, reqVars, relayVars, complete, session, outcome,
                   taskCount, writeCount>>
    /\ UNCHANGED <<assistVars, crudVars>>

\* first run of the task: await completed_event.wait()
TaskStart(r) ==
    /\ loop = Idle /\ taskpc[r] = "created"
    /\ IF signal[r] = "set"
       THEN /\ taskpc' = [taskpc EXCEPT ![r] = "join"]
            /\ loop' = Task(r)
       ELSE /\ taskpc' = [taskpc EXCEPT ![r] = "waiting"]
            /\ UNCHANGED loop
    /\ UNCHANGED <<dbVars, reqVars, relayVars, complete, session, outcome,
                   taskCount, writeCount>>
    /\ UNCHANGED <<assistVars, crudVars>>

\* the event is set: wait() returns
TaskWake(r) ==
    /\ loop = Idle /\ taskpc[r] = "waiting" /\ signal[r] = "set"
    /\ taskpc' = [taskpc EXCEPT ![r] = "join"]
    /\ loop' = Task(r)
    /\ UNCHANGED <<dbVars, reqVars, relayVars, complete, session, outcome,
                   taskCount, writeCount>>
    /\ UNCHANGED <<assistVars, crudVars>>

\* a join over one list pooled by all the requests of the step
TaskJoinPooled(r) ==
    /\ loop = Task(r) /\ taskpc[r] = "join"
    /\ complete' = [complete EXCEPT ![r] =
           Join(Concat([q \in Reqs |->
                   IF stepUid[q] = stepUid[r] /\ tokens[q] # NoTokens
                   THEN tokens[q] ELSE <<>>]))]
    /\ taskpc' = [taskpc EXCEPT ![r] = "open"]
    /\ UNCHANGED <<dbVars, reqVars, relayVars, session, outcome, taskCount,
                   writeCount, loop>>
    /\ UNCHANGED <<assistVars, crudVars>>

\* complete_guide = "".join(tokens)
TaskJoin(r) ==
    /\ loop = Task(r) /\ taskpc[r] = "join"
    /\ complete' = [complete EXCEPT ![r] = Join(tokens[r])]
    /\ taskpc' = [taskpc EXCEPT ![r] = "open"]
    /\ UNCHANGED <<dbVars, reqVars, relayVars, session, outcome, taskCount,
                   writeCount, loop>>
    /\ UNCHANGED <<assistVars, crudVars>>

\* a task that is handed the session of the request instead of making one
TaskOpenShared(r) ==
    /\ loop = Task(r) /\ taskpc[r] = "open"
    /\ session' = [session EXCEPT ![r] = reqdb[r]]
    /\ taskpc' = [taskpc EXCEPT ![r] = "query"]
    /\ UNCHANGED <<dbVars, reqVars, relayVars, complete, outcome, taskCount,
                   writeCount, loop>>
    /\ UNCHANGED <<assistVars, crudVars>>

\* db = SessionLocal(): a new session, or the constructor raises, which the
\* outer except logs before the task returns
TaskOpen(r) ==
    /\ loop = Task(r) /\ taskpc[r] = "open"
    /\ \/ /\ session' = [session EXCEPT ![r] = "open"]
          /\ taskpc' = [taskpc EXCEPT ![r] = "query"]
          /\ UNCHANGED <<outcome, loop>>
       \/ /\ outcome' = [outcome EXCEPT ![r] = "failed"]
          /\ taskpc' = [taskpc EXCEPT ![r] = "done"]
          /\ loop' = Idle
          /\ UNCHANGED session
    /\ UNCHANGED <<dbVars, reqVars, relayVars, complete, taskCount, writeCount>>
    /\ UNCHANGED <<assistVars, crudVars>>

\* a lookup whose early return leaves the function before the close
TaskQueryNoFinally(r) ==
    /\ loop = Task(r) /\ taskpc[r] = "query"
    /\ \/ /\ stepUid[r] \in stepRows
          /\ taskpc' = [taskpc EXCEPT ![r] = "write"]
          /\ UNCHANGED <<outcome, loop>>
       \/ /\ stepUid[r] \notin stepRows
          /\ taskpc' = [taskpc EXCEPT ![r] = "done"]
          /\ outcome' = [outcome EXCEPT ![r] = "missing"]
          /\ loop' = Idle
       \/ /\ taskpc' = [taskpc EXCEPT ![r] = "close"]
          /\ outcome' = [outcome EXCEPT ![r] = "failed"]
          /\ UNCHANGED loop
    /\ UNCHANGED <<dbVars, reqVars, relayVars, complete, session, taskCount,
                   writeCount>>
    /\ UNCHANGED <<assistVars, crudVars>>

\* a lookup whose result is not tested before the assignment
TaskQueryNoCheck(r) ==
    /\ loop = Task(r) /\ taskpc[r] = "query"
    /\ taskpc' = [taskpc EXCEPT ![r] = "write"]
    /\ UNCHANGED <<dbVars, reqVars, relayVars, complete, session, outcome,
                   taskCount, writeCount, loop>>
    /\ UNCHANGED <<assistVars, crudVars>>

\* step = db.query(...).first(): a row, no row, or the query raises
TaskQuery(r) ==
    /\ loop = Task(r) /\ taskpc[r] = "query"
    /\ \/ /\ stepUid[r] \in stepRows
          /\ taskpc' = [taskpc EXCEPT ![r] = "write"]
          /\ UNCHANGED outcome
       \/ /\ stepUid[r] \notin stepRows
          /\ taskpc' = [taskpc EXCEPT ![r] = "close"]
          /\ outcome' = [outcome EXCEPT ![r] = "missing"]
       \/ /\ taskpc' = [taskpc EXCEPT ![r] = "close"]
          /\ outcome' = [outcome EXCEPT ![r] = "failed"]
    /\ UNCHANGED <<dbVars, reqVars, relayVars, complete, session, taskCount,
                   writeCount, loop>>
    /\ UNCHANGED <<assistVars, crudVars>>

\* a commit whose exception is not caught: it ends the task unhandled
TaskWriteUncaught(r) ==
    /\ loop = Task(r) /\ taskpc[r] = "write"
    /\ \/ /\ guide' = [guide EXCEPT ![stepUid[r]] = complete[r]]
          /\ outcome' = [outcome EXCEPT ![r] = "saved"]
          /\ writeCount' = [writeCount EXCEPT ![r] = writeCount[r] + 1]
          /\ taskpc' = [taskpc EXCEPT ![r] = "close"]
          /\ UNCHANGED loop
       \/ /\ outcome' = [outcome EXCEPT ![r] = "failed"]
          /\ taskpc' = [taskpc EXCEPT ![r] = "crashed"]
          /\ loop' = Idle
          /\ UNCHANGED <<guide, writeCount>>
    /\ UNCHANGED <<stepRows, roadmapRows, reqVars, relayVars, complete,
                   session, taskCount>>
    /\ UNCHANGED <<assistVars, crudVars>>

\* step.guide = complete_guide; db.commit(): committed, or the commit raises
TaskWrite(r) ==
    /\ loop = Task(r) /\ taskpc[r] = "write"
    /\ \/ /\ guide' = [guide EXCEPT ![stepUid[r]] = complete[r]]
          /\ outcome' = [outcome EXCEPT ![r] = "saved"]
          /\ writeCount' = [writeCount EXCEPT ![r] = writeCount[r] + 1]
       \/ /\ outcome' = [outcome EXCEPT ![r] = "failed"]
          /\ UNCHANGED <<guide, writeCount>>
    /\ taskpc' = [taskpc EXCEPT ![r] = "close"]
    /\ UNCHANGED <<stepRows, roadmapRows, reqVars, relayVars, complete,
                   session, taskCount, loop>>
    /\ UNCHANGED <<assistVars, crudVars>>

\* a task that runs its save block once more after a first commit
TaskCloseAgain(r) ==
    /\ loop = Task(r) /\ taskpc[r] = "close"
    /\ session' = [session EXCEPT ![r] = "closed"]
    /\ IF writeCount[r] = 1
       THEN taskpc' = [taskpc EXCEPT ![r] = "open"] /\ UNCHANGED loop
       ELSE taskpc' = [taskpc EXCEPT ![r] = "done"] /\ loop' = Idle
    /\ UNCHANGED <<dbVars, reqVars, relayVars, complete, outcome, taskCount,
                   writeCount>>
    /\ UNCHANGED <<assistVars, crudVars>>

\* finally: db.close(); an exception is logged by the outer except; return
TaskClose(r) ==
    /\ loop = Task(r) /\ taskpc[r] = "close"
    /\ session' = [session EXCEPT ![r] = "closed"]
    /\ taskpc' = [taskpc EXCEPT ![r] = "done"]
    /\ loop' = Idle
    /\ UNCHANGED <<dbVars, reqVars, relayVars, complete, outcome, taskCount,
                   writeCount>>
    /\ UNCHANGED <<assistVars, crudVars>>

\* ------------------------------------------------------- delete_roadmap
\* the steps of roadmap m
StepsOf(m) == {s \in stepRows : RoadmapOf[s] = m}
\* select subroadmap_uid from roadmap_subroadmap where roadmap_uid = m
SubsOf(m) == {x \in RoadmapIds : <<m, x>> \in relRows}
\* flushing the delete of a step sets step_id of its learning resources to
\* NULL (the relationship has no delete cascade), which the NOT NULL column
\* refuses
Deletable(m) == \A p \in resRows : p[2] \notin StepsOf(m)

\* the bulk delete of the sub-roadmaps (no cascade, no synchronisation), the
\* delete of the relation rows that mention m, db.delete(roadmap) and
\* db.commit(): the steps of m go with it (cascade="all, delete-orphan"),
\* and a step that has m as its sub-roadmap loses the reference
DeleteRows(m) ==
    /\ roadmapRows' = roadmapRows \ ({m} \cup SubsOf(m))
    /\ roadmapUser' = [x \in RoadmapIds |->
           IF x \in {m} \cup SubsOf(m) THEN NoUser ELSE roadmapUser[x]]
    /\ relRows' = {p \in relRows : p[1] # m /\ p[2] # m}
    /\ stepRows' = stepRows \ StepsOf(m)
    /\ guide' = [s \in StepIds |-> IF s \in StepsOf(m) THEN NULL ELSE guide[s]]
    /\ bookmark' = [s \in StepIds |->
           IF s \in StepsOf(m) THEN FALSE ELSE bookmark[s]]
    /\ subRoadmap' = [s \in StepIds |->
           IF s \in StepsOf(m) \/ subRoadmap[s] = m
           THEN NoRoadmap ELSE subRoadmap[s]]

\* delete_roadmap by the owner of the roadmap of step s, while guide
\* requests run
DeleteStepRow(s) ==
    /\ loop = Idle /\ s \in stepRows
    /\ Deletable(RoadmapOf[s])
    /\ DeleteRows(RoadmapOf[s])
    /\ UNCHANGED <<tagRows, resRows, opVars, userVars>>
    /\ UNCHANGED <<reqVars, relayVars, taskVars, assistVars, loop>>

\* ------------------------------------------------ call_roadmap_assistant
\* the assistant calls arrive in the order of their numbers
CanAssist(r) ==
    /\ loop = Idle /\ akind[r] = "idle"
    /\ \A q \in Reqs : q < r => akind[q] # "idle"

\* get_roadmap_by_uid finds no row: EntityNotFoundException leaves the call
AssistantNotFound(r, m) ==
    /\ CanAssist(r)
    /\ m \notin roadmapRows
    /\ auid' = [auid EXCEPT ![r] = m]
    /\ akind' = [akind EXCEPT ![r] = "notfound"]
    /\ araised' = [araised EXCEPT ![r] = RoadmapNotFound]
    /\ UNCHANGED <<apc, asource, aemitted, areceived>>
    /\ UNCHANGED <<dbVars, reqVars, relayVars, taskVars, loop, crudVars>>

\* an assistant call that keeps its chunks in a list and starts a save task
AssistantCallSpawn(r, m) ==
    /\ CanAssist(r)
    /\ m \in roadmapRows
    /\ auid' = [auid EXCEPT ![r] = m]
    /\ akind' = [akind EXCEPT ![r] = "stream"]
    /\ apc' = [apc EXCEPT ![r] = "unstarted"]
    /\ tokens' = [tokens EXCEPT ![r] = <<>>]
    /\ signal' = [signal EXCEPT ![r] = "clear"]
    /\ taskpc' = [taskpc EXCEPT ![r] = "created"]
    /\ taskCount' = [taskCount EXCEPT ![r] = taskCount[r] + 1]
    /\ UNCHANGED <<araised, asource, aemitted, areceived>>
    /\ UNCHANGED <<dbVars, reqVars, relaypc, pos, cur, setCount, genCalls,
                   source, emitted, received, complete, session, outcome,
                   writeCount, loop, crudVars>>

\* the roadmap is found and dumped to JSON: return generate()
AssistantCall(r, m) ==
    /\ CanAssist(r)
    /\ m \in roadmapRows
    /\ auid' = [auid EXCEPT ![r] = m]
    /\ akind' = [akind EXCEPT ![r] = "stream"]
    /\ apc' = [apc EXCEPT ![r] = "unstarted"]
    /\ UNCHANGED <<araised, asource, aemitted, areceived>>
    /\ UNCHANGED <<dbVars, reqVars, relayVars, taskVars, loop, crudVars>>

\* first __anext__: roadmap_assistant_chain.astream is called
AssistStart(r) ==
    /\ loop = Idle /\ akind[r] = "stream" /\ apc[r] = "unstarted"
    /\ asource' = [asource EXCEPT ![r] = "open"]
    /\ apc' = [apc EXCEPT ![r] = "await"]
    /\ UNCHANGED <<auid, akind, araised, aemitted, areceived>>
    /\ UNCHANGED <<dbVars, reqVars, relayVars, taskVars, loop, crudVars>>

\* a later __anext__: the generator resumes after its yield
AssistResume(r) ==
    /\ loop = Idle /\ akind[r] = "stream" /\ apc[r] = "suspended"
    /\ apc' = [apc EXCEPT ![r] = "await"]
    /\ UNCHANGED <<auid, akind, araised, asource, aemitted, areceived>>
    /\ UNCHANGED <<dbVars, reqVars, relayVars, taskVars, loop, crudVars>>

\* the chain delivers a chunk, which is yielded as a token event at once
AssistChunk(r, tok) ==
    /\ loop = Idle /\ akind[r] = "stream" /\ apc[r] = "await"
    /\ Append(aemitted[r], tok) \in Outputs
    /\ aemitted' = [aemitted EXCEPT ![r] = Append(aemitted[r], tok)]
    /\ areceived' = [areceived EXCEPT ![r] =
           Append(areceived[r], Frame(TokenKey, tok))]
    /\ apc' = [apc EXCEPT ![r] = "suspended"]
    /\ UNCHANGED <<auid, akind, araised, asource>>
    /\ UNCHANGED <<dbVars, reqVars, relayVars, taskVars, loop, crudVars>>

\* the chain is exhausted: the generator returns
AssistSourceEnd(r) ==
    /\ loop = Idle /\ akind[r] = "stream" /\ apc[r] = "await"
    /\ asource' = [asource EXCEPT ![r] = "exhausted"]
    /\ apc' = [apc EXCEPT ![r] = "ended"]
    /\ UNCHANGED <<auid, akind, araised, aemitted, areceived>>
    /\ UNCHANGED <<dbVars, reqVars, relayVars, taskVars, loop, crudVars>>

\* the chain raises an Exception: it is logged and yielded as an error event
AssistSourceRaise(r, msg) ==
    /\ loop = Idle /\ akind[r] = "stream" /\ apc[r] = "await"
    /\ asource' = [asource EXCEPT ![r] = "raised"]
    /\ areceived' = [areceived EXCEPT ![r] =
           Append(areceived[r], Frame(ErrorKey, msg))]
    /\ apc' = [apc EXCEPT ![r] = "suspended_err"]
    /\ UNCHANGED <<auid, akind, araised, aemitted>>
    /\ UNCHANGED <<dbVars, reqVars, relayVars, taskVars, loop, crudVars>>

\* __anext__ after the error event: the generator returns
AssistFinish(r) ==
    /\ loop = Idle /\ akind[r] = "stream" /\ apc[r] = "suspended_err"
    /\ apc' = [apc EXCEPT ![r] = "ended"]
    /\ UNCHANGED <<auid, akind, araised, asource, aemitted, areceived>>
    /\ UNCHANGED <<dbVars, reqVars, relayVars, taskVars, loop, crudVars>>

\* the consumer stops reading: the generator is closed or never started
AssistDisconnect(r) ==
    /\ loop = Idle /\ akind[r] = "stream"
    /\ apc[r] \in {"unstarted", "suspended", "await", "suspended_err"}
    /\ apc' = [apc EXCEPT ![r] = "closed"]
    /\ UNCHANGED <<auid, akind, araised, asource, aemitted, areceived>>
    /\ UNCHANGED <<dbVars, reqVars, relayVars, taskVars, loop, crudVars>>

\* ------------------------------------------------------ service calls
\* the variables of the guide requests and of the assistant calls
streamVars == <<reqVars, relayVars, taskVars, assistVars, loop>>

\* the service calls arrive in the order of their numbers; a call runs on
\* the event loop from its start, or from its await, to its next await
CanServe(r) ==
    /\ loop = Idle /\ cpc[r] = "idle"
    /\ \A q \in Reqs : q < r => cpc[q] # "idle"

\* call r is made: operation, current user and uid argument
Called(r, op, u, a) ==
    /\ cop' = [cop EXCEPT ![r] = op]
    /\ cuser' = [cuser EXCEPT ![r] = u]
    /\ carg' = [carg EXCEPT ![r] = a]

\* exception e leaves call r; get_db closes the session of the request
Raises(r, e) ==
    /\ cerr' = [cerr EXCEPT ![r] = e]
    /\ cpc' = [cpc EXCEPT ![r] = "done"]

\* call r returns v; get_db closes the session of the request
Returns(r, v) ==
    /\ cret' = [cret EXCEPT ![r] = v]
    /\ cpc' = [cpc EXCEPT ![r] = "done"]

\* db.query(Roadmap).filter(Roadmap.user_id == user_id).count()
CountOf(u) == Cardinality({m \in roadmapRows : roadmapUser[m] = u})

\* a test that lets the user reach the limit and one more
CheckRoadmapCreatorOver(u) == CountOf(u) > RoadmapQuota

\* _check_roadmap_creator: it has no await of its own, so it runs within
\* the segment of its caller
CheckRoadmapCreator(u) == CountOf(u) >= RoadmapQuota

\* ------------------------------------------------------- create_roadmap
\* the quota test, the lookup of the user and the call of the chain, on
\* which the coroutine waits
CreateRoadmap(r, u) ==
    /\ CanServe(r)
    /\ Called(r, "create_roadmap", u, "")
    /\ IF CheckRoadmapCreator(u)
       THEN /\ Raises(r, "RoadmapCreatorMaxCountException")
            /\ UNCHANGED cinvoked
       ELSE /\ cpc' = [cpc EXCEPT ![r] = "model"]
            /\ cinvoked' = [cinvoked EXCEPT ![r] = cinvoked[r] + 1]
            /\ UNCHANGED cerr
    /\ UNCHANGED <<cret, clist, cowner, pendingRel>>
    /\ UNCHANGED <<dbVars, tableVars, userVars, streamVars>>

\* the chain has answered: the roadmap, its step and the tags of the step
\* are added and committed, and the uid of the roadmap is returned
CreateRoadmapInsert(r) ==
    /\ loop = Idle /\ cpc[r] = "model" /\ cop[r] = "create_roadmap"
    /\ roadmapRows' = roadmapRows \cup {NewRoadmapUid[r]}
    /\ roadmapUser' = [roadmapUser EXCEPT ![NewRoadmapUid[r]] = cuser[r]]
    /\ stepRows' = stepRows \cup {NewStepUid[r]}
    /\ tagRows' = tagRows \cup {NewStepUid[r]}
    /\ Returns(r, NewRoadmapUid[r])
    /\ UNCHANGED <<guide, bookmark, subRoadmap, relRows, resRows>>
    /\ UNCHANGED <<cop, cuser, carg, cerr, clist, cinvoked, cowner, pendingRel>>
    /\ UNCHANGED <<userVars, streamVars>>

\* ---------------------------------------------------- create_subroadmap
\* the quota test of the current user, the lookup of the step and of its
\* roadmap, and the call of the chain, on which the coroutine waits
CreateSubroadmap(r, u, s) ==
    /\ CanServe(r)
    /\ Called(r, "create_subroadmap", u, s)
    /\ IF CheckRoadmapCreator(u)
       THEN /\ Raises(r, "RoadmapCreatorMaxCountException")
            /\ UNCHANGED <<cinvoked, cowner>>
       ELSE IF s \notin stepRows
       THEN /\ Raises(r, "EntityNotFoundException")
            /\ UNCHANGED <<cinvoked, cowner>>
       ELSE /\ cpc' = [cpc EXCEPT ![r] = "model"]
            /\ cinvoked' = [cinvoked EXCEPT ![r] = cinvoked[r] + 1]
            /\ cowner' = [cowner EXCEPT ![r] = roadmapUser[RoadmapOf[s]]]
            /\ UNCHANGED cerr
    /\ UNCHANGED <<cret, clist, pendingRel>>
    /\ UNCHANGED <<dbVars, tableVars, userVars, streamVars>>

\* the chain has answered: the sub-roadmap (owned by the owner of the parent
\* roadmap), its step and tags and the step's sub_roadmap_uid are committed;
\* then the relation row is executed on the session, which is not committed
\* again, and the uid is returned.  When the step row was deleted during the
\* wait, the UPDATE of the step matches no row and the commit raises
CreateSubroadmapInsert(r) ==
    /\ loop = Idle /\ cpc[r] = "model" /\ cop[r] = "create_subroadmap"
    /\ IF carg[r] \in stepRows
       THEN /\ roadmapRows' = roadmapRows \cup {NewRoadmapUid[r]}
            /\ roadmapUser' = [roadmapUser EXCEPT ![NewRoadmapUid[r]] = cowner[r]]
            /\ subRoadmap' = [subRoadmap EXCEPT ![carg[r]] = NewRoadmapUid[r]]
            /\ stepRows' = stepRows \cup {NewStepUid[r]}
            /\ tagRows' = tagRows \cup {NewStepUid[r]}
            /\ pendingRel' = [pendingRel EXCEPT ![r] =
                   {<<RoadmapOf[carg[r]], NewRoadmapUid[r]>>}]
            /\ cret' = [cret EXCEPT ![r] = NewRoadmapUid[r]]
            /\ cpc' = [cpc EXCEPT ![r] = "returned"]
            /\ UNCHANGED cerr
       ELSE /\ Raises(r, "StaleDataError")
            /\ UNCHANGED <<roadmapRows, roadmapUser, subRoadmap, stepRows,
                           tagRows, pendingRel, cret>>
    /\ UNCHANGED <<guide, bookmark, relRows, resRows>>
    /\ UNCHANGED <<cop, cuser, carg, clist, cinvoked, cowner>>
    /\ UNCHANGED <<userVars, streamVars>>

\* get_db after the route has returned: db.close() rolls back what the
\* session executed after its last commit
RequestClose(r) ==
    /\ loop = Idle /\ cpc[r] = "returned"
    /\ pendingRel' = [pendingRel EXCEPT ![r] = {}]
    /\ cpc' = [cpc EXCEPT ![r] = "done"]
    /\ UNCHANGED <<cop, cuser, carg, cerr, cret, clist, cinvoked, cowner>>
    /\ UNCHANGED <<dbVars, tableVars, userVars, streamVars>>

\* a chain's ainvoke raises.  recommend_learning_resources wraps the
\* exception, the create calls let it pass; nothing was added
ModelRaise(r) ==
    /\ loop = Idle /\ cpc[r] = "model"
    /\ Raises(r, IF cop[r] = "recommend_learning_resources"
                 THEN "ModelInvocationException" ELSE "Exception")
    /\ UNCHANGED <<cop, cuser, carg, cret, clist, cinvoked, cowner, pendingRel>>
    /\ UNCHANGED <<dbVars, tableVars, userVars, streamVars>>

\* ------------------------------------------------------- delete_roadmap
\* a delete that does not compare the owner with the current user
DeleteRoadmapAnyUser(r, u, m) ==
    /\ CanServe(r)
    /\ Called(r, "delete_roadmap", u, m)
    /\ IF m \notin roadmapRows
       THEN /\ Raises(r, "EntityNotFoundException")
            /\ UNCHANGED <<dbVars, roadmapUser, bookmark, subRoadmap, relRows>>
       ELSE IF ~Deletable(m)
       THEN /\ Raises(r, "IntegrityError")
            /\ UNCHANGED <<dbVars, roadmapUser, bookmark, subRoadmap, relRows>>
       ELSE /\ DeleteRows(m)
            /\ cpc' = [cpc EXCEPT ![r] = "done"]
            /\ UNCHANGED cerr
    /\ UNCHANGED <<tagRows, resRows>>
    /\ UNCHANGED <<cret, clist, cinvoked, cowner, pendingRel>>
    /\ UNCHANGED <<userVars, streamVars>>

\* the whole of delete_roadmap (it has no await): the lookups, the two
\* tests, the deletes and the commit
DeleteRoadmap(r, u, m) ==
    /\ CanServe(r)
    /\ Called(r, "delete_roadmap", u, m)
    /\ IF m \notin roadmapRows
       THEN /\ Raises(r, "EntityNotFoundException")
            /\ UNCHANGED <<dbVars, roadmapUser, bookmark, subRoadmap, relRows>>
       ELSE IF roadmapUser[m] # u
       THEN /\ Raises(r, "ForbiddenException")
            /\ UNCHANGED <<dbVars, roadmapUser, bookmark, subRoadmap, relRows>>
       ELSE IF ~Deletable(m)
       THEN /\ Raises(r, "IntegrityError")
            /\ UNCHANGED <<dbVars, roadmapUser, bookmark, subRoadmap, relRows>>
       ELSE /\ DeleteRows(m)
            /\ cpc' = [cpc EXCEPT ![r] = "done"]
            /\ UNCHANGED cerr
    /\ UNCHANGED <<tagRows, resRows>>
    /\ UNCHANGED <<cret, clist, cinvoked, cowner, pendingRel>>
    /\ UNCHANGED <<userVars, streamVars>>

\* ------------------------------------------------------ toggle_bookmark
\* str(bool) of the returned flag
BoolStr(b) == IF b THEN "True" ELSE "False"

\* a toggle that sets the flag instead of inverting it
ToggleBookmarkSet(r, u, s) ==
    /\ CanServe(r)
    /\ Called(r, "toggle_bookmark", u, s)
    /\ IF s \notin stepRows
       THEN /\ Raises(r, "EntityNotFoundException")
            /\ UNCHANGED <<bookmark, cret>>
       ELSE IF roadmapUser[RoadmapOf[s]] # u
       THEN /\ Raises(r, "ForbiddenException")
            /\ UNCHANGED <<bookmark, cret>>
       ELSE /\ bookmark' = [bookmark EXCEPT ![s] = TRUE]
            /\ Returns(r, BoolStr(TRUE))
            /\ UNCHANGED cerr
    /\ UNCHANGED <<dbVars, roadmapUser, subRoadmap, relRows, tagRows, resRows>>
    /\ UNCHANGED <<clist, cinvoked, cowner, pendingRel>>
    /\ UNCHANGED <<userVars, streamVars>>

\* the whole of toggle_bookmark (it has no await): the lookup of the step,
\* the comparison of the creator of its roadmap with the current user,
\* `step.is_bookmarked = not step.is_bookmarked`, the commit and the return
\* of the stored flag
ToggleBookmark(r, u, s) ==
    /\ CanServe(r)
    /\ Called(r, "toggle_bookmark", u, s)
    /\ IF s \notin stepRows
       THEN /\ Raises(r, "EntityNotFoundException")
            /\ UNCHANGED <<bookmark, cret>>
       ELSE IF roadmapUser[RoadmapOf[s]] # u
       THEN /\ Raises(r, "ForbiddenException")
            /\ UNCHANGED <<bookmark, cret>>
       ELSE /\ bookmark' = [bookmark EXCEPT ![s] = ~bookmark[s]]
            /\ Returns(r, BoolStr(~bookmark[s]))
            /\ UNCHANGED cerr
    /\ UNCHANGED <<dbVars, roadmapUser, subRoadmap, relRows, tagRows, resRows>>
    /\ UNCHANGED <<clist, cinvoked, cowner, pendingRel>>
    /\ UNCHANGED <<userVars, streamVars>>

\* --------------------------------------------------- learning resources
\* the unique ids of the learning resources of step s
ResourcesOf(s) == {p[1] : p \in {q \in resRows : q[2] = s}}

\* the whole of add_learning_resource (no await).  u is the current user of
\* the route, which does not pass it on: the service is given the step and
\* the url only
AddLearningResource(r, u, s) ==
    /\ CanServe(r)
    /\ Called(r, "add_learning_resource", u, s)
    /\ IF s \notin stepRows
       THEN /\ Raises(r, "EntityNotFoundException")
            /\ UNCHANGED <<resRows, cret>>
       ELSE /\ resRows' = resRows \cup {<<NewResourceUid[r], s>>}
            /\ Returns(r, NewResourceUid[r])
            /\ UNCHANGED cerr
    /\ UNCHANGED <<dbVars, roadmapUser, bookmark, subRoadmap, relRows, tagRows>>
    /\ UNCHANGED <<clist, cinvoked, cowner, pendingRel>>
    /\ UNCHANGED <<userVars, streamVars>>

\* the whole of remove_learning_resource (no await); u as above
RemoveLearningResource(r, u, x) ==
    /\ CanServe(r)
    /\ Called(r, "remove_learning_resource", u, x)
    /\ IF \A p \in resRows : p[1] # x
       THEN /\ Raises(r, "EntityNotFoundException")
            /\ UNCHANGED resRows
       ELSE /\ resRows' = {p \in resRows : p[1] # x}
            /\ cpc' = [cpc EXCEPT ![r] = "done"]
            /\ UNCHANGED cerr
    /\ UNCHANGED <<dbVars, roadmapUser, bookmark, subRoadmap, relRows, tagRows>>
    /\ UNCHANGED <<cret, clist, cinvoked, cowner, pendingRel>>
    /\ UNCHANGED <<userVars, streamVars>>

\* a recommendation that asks the chain whatever is stored
RecommendNoCache(r, s) ==
    /\ CanServe(r)
    /\ Called(r, "recommend_learning_resources", NoUser, s)
    /\ IF s \notin stepRows
       THEN /\ Raises(r, "Exception")
            /\ UNCHANGED <<clist, cinvoked>>
       ELSE /\ cpc' = [cpc EXCEPT ![r] = "model"]
            /\ cinvoked' = [cinvoked EXCEPT ![r] = cinvoked[r] + 1]
            /\ UNCHANGED <<cerr, clist>>
    /\ UNCHANGED <<cret, cowner, pendingRel>>
    /\ UNCHANGED <<dbVars, tableVars, userVars, streamVars>>

\* recommend_learning_resources up to its await: the lookup of the step,
\* the stored resources, which are returned when there are any, and the
\* call of the chain
RecommendLearningResources(r, s) ==
    /\ CanServe(r)
    /\ Called(r, "recommend_learning_resources", NoUser, s)
    /\ IF s \notin stepRows
       THEN /\ Raises(r, "Exception")
            /\ UNCHANGED <<clist, cinvoked>>
       ELSE IF ResourcesOf(s) # {}
       THEN /\ clist' = [clist EXCEPT ![r] = ResourcesOf(s)]
            /\ cpc' = [cpc EXCEPT ![r] = "done"]
            /\ UNCHANGED <<cerr, cinvoked>>
       ELSE /\ cpc' = [cpc EXCEPT ![r] = "model"]
            /\ cinvoked' = [cinvoked EXCEPT ![r] = cinvoked[r] + 1]
            /\ UNCHANGED <<cerr, clist>>
    /\ UNCHANGED <<cret, cowner, pendingRel>>
    /\ UNCHANGED <<dbVars, tableVars, userVars, streamVars>>

\* len(result["url"]) of an answer of the chain
UrlCounts == {0, 1}

\* the chain has answered with n urls: one resource is added for each, they
\* are committed and returned.  When the step row was deleted during the
\* wait, the insert refers to no step: the database refuses it, or stores it
\* when it does not enforce foreign keys
RecommendInsert(r, n) ==
    /\ loop = Idle /\ cpc[r] = "model"
    /\ cop[r] = "recommend_learning_resources"
    /\ LET new == IF n = 1 THEN {<<NewResourceUid[r], carg[r]>>} ELSE {}
       IN \/ /\ resRows' = resRows \cup new
             /\ clist' = [clist EXCEPT ![r] = {p[1] : p \in new}]
             /\ cpc' = [cpc EXCEPT ![r] = "done"]
             /\ UNCHANGED cerr
          \/ /\ carg[r] \notin stepRows /\ n = 1
             /\ Raises(r, "IntegrityError")
             /\ UNCHANGED <<resRows, clist>>
    /\ UNCHANGED <<dbVars, roadmapUser, bookmark, subRoadmap, relRows, tagRows>>
    /\ UNCHANGED <<cop, cuser, carg, cret, cinvoked, cowner, pendingRel>>
    /\ UNCHANGED <<userVars, streamVars>>

\* ------------------------------------------------ create_or_update_user
\* the kakao ids, nicknames and profile images of the logins
KakaoIds == {"k1", "k2"}
Nicknames == {"ann", "bob"}
\* profile_image=None, the argument's default
NoImage == "<None>"
GivenImages == {NoImage, "", "a.png", "b.png"}
\* `profile_image or default_profile_image_url`: None and the empty string
\* are false
ImageOrDefault(p) == IF p \in {NoImage, ""} THEN DefaultImage ELSE p
\* nanoid.generate(size=10): an id no stored user has
UserUidPool == {"u1", "u2", "u3"}
FreshUserUids == {u \in UserUidPool : \A w \in userRows : w.uid # u}
\* db.query(KakaoUser).filter(KakaoUser.kakao_id == kakao_id)
UsersOf(k) == {w \in userRows : w.kakao_id = k}

\* an upsert that adds a user without looking for the kakao id
CreateOrUpdateUserInsert(k, n, p) ==
    /\ loop = Idle
    /\ FreshUserUids # {}
    /\ LET new == [kakao_id |-> k, uid |-> CHOOSE u \in FreshUserUids : TRUE,
                   nickname |-> n, image |-> ImageOrDefault(p)]
       IN /\ userRows' = userRows \cup {new}
          /\ userCall' = [kakao_id |-> k, nickname |-> n, given |-> p,
                          uid |-> new.uid, image |-> new.image]
    /\ UNCHANGED <<dbVars, tableVars, opVars, streamVars>>

\* the whole of create_or_update_user (it has no await): the lookup by
\* kakao_id, the update of the stored user or the insert of a new one, the
\* commit and the returned UserDTO
CreateOrUpdateUser(k, n, p) ==
    /\ loop = Idle
    /\ IF UsersOf(k) # {}
       THEN LET user == CHOOSE w \in UsersOf(k) : TRUE
                upd == [user EXCEPT !.nickname = n,
                                    !.image = ImageOrDefault(p)]
            IN /\ userRows' = (userRows \ {user}) \cup {upd}
               /\ userCall' = [kakao_id |-> k, nickname |-> n, given |-> p,
                               uid |-> upd.uid, image |-> upd.image]
       ELSE /\ FreshUserUids # {}
            /\ LET new == [kakao_id |-> k,
                           uid |-> CHOOSE u \in FreshUserUids : TRUE,
                           nickname |-> n, image |-> ImageOrDefault(p)]
               IN /\ userRows' = userRows \cup {new}
                  /\ userCall' = [kakao_id |-> k, nickname |-> n, given |-> p,
                                  uid |-> new.uid, image |-> new.image]
    /\ UNCHANGED <<dbVars, tableVars, opVars, streamVars>>

\* ------------------------------------------------------- specifications
RelayStep(r) ==
    \/ RelayAppend(r) \/ RelayYield(r) \/ RelaySetOk(r)
    \/ RelaySetErr(r) \/ RelayYieldErr(r)

TaskStep(r) ==
    \/ TaskStart(r) \/ TaskWake(r) \/ TaskJoin(r) \/ TaskOpen(r)
    \/ TaskQuery(r) \/ TaskWrite(r) \/ TaskClose(r)

Next ==
    \/ \E r \in Reqs, s \in StepUids : GetStepGuideNotFound(r, s)
    \/ \E r \in Reqs, s \in StepUids : GetStepGuideHit(r, s)
    \/ \E r \in Reqs, s \in StepUids : GetStepGuideLive(r, s)
    \/ \E r \in Reqs : ReplayNext(r)
    \/ \E r \in Reqs : RelayStart(r)
    \/ \E r \in Reqs : RelayResume(r)
    \/ \E r \in Reqs, tok \in TokenSet : SourceChunk(r, tok)
    \/ \E r \in Reqs : RelayAppend(r)
    \/ \E r \in Reqs : RelayYield(r)
    \/ \E r \in Reqs : SourceEnd(r)
    \/ \E r \in Reqs : RelaySetOk(r)
    \/ \E r \in Reqs, msg \in ErrMsgs : SourceRaise(r, msg)
    \/ \E r \in Reqs : RelaySetErr(r)
    \/ \E r \in Reqs : RelayYieldErr(r)
    \/ \E r \in Reqs : RelayFinish(r)
    \/ \E r \in Reqs : Disconnect(r)
    \/ \E r \in Reqs : TaskStart(r)
    \/ \E r \in Reqs : TaskWake(r)
    \/ \E r \in Reqs : TaskJoin(r)
    \/ \E r \in Reqs : TaskOpen(r)
    \/ \E r \in Reqs : TaskQuery(r)
    \/ \E r \in Reqs : TaskWrite(r)
    \/ \E r \in Reqs : TaskClose(r)
    \/ \E s \in StepUids : DeleteStepRow(s)

Spec == Init /\ [][Next]_vars

\* the event loop runs every ready coroutine: the relay between two awaits
\* and the background task are never starved
FairSpec ==
    /\ Spec
    /\ \A r \in Reqs : WF_vars(RelayStep(r))
    /\ \A r \in Reqs : WF_vars(TaskStep(r))

\* the assistant calls on their own: they share only the rows with the guide
\* requests
AssistNext ==
    \/ \E r \in Reqs, m \in RoadmapUids : AssistantNotFound(r, m)
    \/ \E r \in Reqs, m \in RoadmapUids : AssistantCall(r, m)
    \/ \E r \in Reqs : AssistStart(r)
    \/ \E r \in Reqs : AssistResume(r)
    \/ \E r \in Reqs, tok \in TokenSet : AssistChunk(r, tok)
    \/ \E r \in Reqs : AssistSourceEnd(r)
    \/ \E r \in Reqs, msg \in ErrMsgs : AssistSourceRaise(r, msg)
    \/ \E r \in Reqs : AssistFinish(r)
    \/ \E r \in Reqs : AssistDisconnect(r)
    \/ \E s \in StepUids : DeleteStepRow(s)

AssistSpec == Init /\ [][AssistNext]_vars

\* the service calls on the stored roadmaps, steps and learning resources
CrudNext ==
    \/ \E r \in Reqs, u \in Users : CreateRoadmap(r, u)
    \/ \E r \in Reqs : CreateRoadmapInsert(r)
    \/ \E r \in Reqs, u \in Users, s \in StepIds : CreateSubroadmap(r, u, s)
    \/ \E r \in Reqs : CreateSubroadmapInsert(r)
    \/ \E r \in Reqs : RequestClose(r)
    \/ \E r \in Reqs : ModelRaise(r)
    \/ \E r \in Reqs, u \in Users, m \in RoadmapIds : DeleteRoadmap(r, u, m)
    \/ \E r \in Reqs, u \in Users, s \in StepIds : ToggleBookmark(r, u, s)
    \/ \E r \in Reqs, u \in Users, s \in StepIds : AddLearningResource(r, u, s)
    \/ \E r \in Reqs, u \in Users, x \in ResourceIds :
           RemoveLearningResource(r, u, x)
    \/ \E r \in Reqs, s \in StepIds : RecommendLearningResources(r, s)
    \/ \E r \in Reqs, n \in UrlCounts : RecommendInsert(r, n)

CrudSpec == CrudInit /\ [][CrudNext]_vars

\* the logins, one call after the other, on an empty kakao_users table
UserNext ==
    \E k \in KakaoIds, n \in Nicknames, p \in GivenImages :
        CreateOrUpdateUser(k, n, p)

UserSpec == UserInit /\ [][UserNext]_vars

TypeOK ==
    /\ stepRows \subseteq StepIds /\ roadmapRows \subseteq RoadmapIds
    /\ \A r \in Reqs :
        /\ kind[r] \in {"idle", "notfound", "hit", "live"}
        /\ relaypc[r] \in {"none", "unstarted", "await", "append", "yield",
                           "suspended", "set_ok", "set_err", "yield_err",
                           "suspended_err", "ended", "closed", "raised"}
        /\ source[r] \in {"none", "open", "exhausted", "raised"}
        /\ raised[r] \in {NoError, StepNotFound}
        /\ taskpc[r] \in {"none", "created", "waiting", "join", "open",
                          "query", "write", "close", "done", "crashed"}
        /\ signal[r] \in {"none", "clear", "set"}
        /\ session[r] \in {"none", "open", "closed"}
        /\ outcome[r] \in {"none", "saved", "missing", "failed"}
        /\ taskCount[r] \in 0..1 /\ writeCount[r] \in 0..1
        /\ reqdb[r] \in {"none", "open", "closed"}
        /\ akind[r] \in {"idle", "notfound", "stream"}
        /\ araised[r] \in {NoError, RoadmapNotFound}
        /\ apc[r] \in {"none", "unstarted", "await", "suspended",
                       "suspended_err", "ended", "closed"}
        /\ asource[r] \in {"none", "open", "exhausted", "raised"}

\* ================================================================ claims
\* the live generation of r is over, the chain ended normally and the
\* consumer read the stream to its end
FreshDrained(r) ==
    kind[r] = "live" /\ source[r] = "exhausted" /\ relaypc[r] = "ended"

\* request r took a step of its own (its call or its generator)
ReqMoved(r) ==
    <<kind[r], relaypc[r], pos[r], received[r]>> #
    <<kind'[r], relaypc'[r], pos'[r], received'[r]>>

\* C1: round trip of a fresh generation.  Once the chain has ended normally
\* and the consumer has read the whole stream, the background task comes to
\* its end, and unless it found the step gone or its query or commit raised,
\* the guide then stored for the step is the concatenation, in order, of the
\* token fields the client received.
C1_RoundTrip ==
    \A r \in Reqs :
        (FreshDrained(r) /\ taskpc[r] # "done") ~>
            ( /\ taskpc[r] = "done"
              /\ \/ outcome[r] \in {"missing", "failed"}
                 \/ /\ outcome[r] = "saved"
                    /\ guide[stepUid[r]] = ClientText(received[r]) )

C1_Witness ==
    \E r \in Reqs :
        /\ FreshDrained(r) /\ taskpc[r] = "done" /\ outcome[r] = "saved"
        /\ Len(TokenFields(received[r])) = 2
        /\ guide[stepUid[r]] = TokA \o TokB

\* C2: cache hit.  A request that finds a stored guide never calls the chain;
\* the guide it replays is the one stored when it was called, and the token
\* fields of the drained stream, concatenated, are exactly that guide.
C2_CacheHit ==
    [][ \A r \in Reqs :
          kind'[r] = "hit" =>
            /\ genCalls'[r] = 0 /\ source'[r] = "none"
            /\ kind[r] = "idle" =>
                 Truthy(guide[stepUid'[r]]) /\ cached'[r] = guide[stepUid'[r]]
            /\ kind[r] = "hit" => cached'[r] = cached[r]
            /\ relaypc'[r] = "ended" =>
                 /\ ErrorCount(received'[r]) = 0
                 /\ ClientText(received'[r]) = cached'[r] ]_vars

C2_Witness ==
    /\ kind[1] = "live" /\ outcome[1] = "saved"
    /\ kind[2] = "hit" /\ relaypc[2] = "ended"
    /\ cached[2] = TokA \o TokB
    /\ ClientText(received[2]) = TokA \o TokB

\* C3 as claimed: the replay of a stored guide G is exactly one token event
\* whose value is G.
C3_SingleEvent ==
    \A r \in Reqs :
        (kind[r] = "hit" /\ relaypc[r] = "ended") =>
            /\ Len(received[r]) = 1
            /\ IsTokenEvent(received[r][1])
            /\ ParseEvent(received[r][1]).value = cached[r]

\* C3 as amended: the replay of a stored guide G is one token event for each
\* character of G, in order, each carrying that one character; it is a single
\* event only when G is one character long.
C3_OneEventPerCharacter ==
    \A r \in Reqs :
        kind[r] = "hit" =>
            /\ Len(received[r]) = pos[r]
            /\ relaypc[r] = "ended" => pos[r] = Len(cached[r])
            /\ \A i \in 1..Len(received[r]) :
                 /\ IsTokenEvent(received[r][i])
                 /\ ParseEvent(received[r][i]).value = <<cached[r][i]>>

C3_Witness ==
    \E r \in Reqs :
        /\ kind[r] = "hit" /\ relaypc[r] = "ended"
        /\ Len(cached[r]) > 1 /\ Len(received[r]) = Len(cached[r])

\* C4: on the cache-hit path there is no background task, no event and no
\* token list, and no step of the request changes the stored rows.
C4_HitFrame ==
    [][ \A r \in Reqs :
          kind'[r] = "hit" =>
            /\ taskpc'[r] = "none" /\ session'[r] = "none"
            /\ signal'[r] = "none" /\ setCount'[r] = 0
            /\ tokens'[r] = NoTokens
            /\ ReqMoved(r) => (guide' = guide /\ stepRows' = stepRows) ]_vars

C4_Witness ==
    \E r \in Reqs :
        /\ kind[r] = "hit" /\ relaypc[r] = "ended"
        /\ stepUid[r] \in stepRows /\ guide[stepUid[r]] = cached[r]

C6_SetExactlyOnce ==
    \A r \in Reqs :
        /\ setCount[r] <= 1
        /\ (signal[r] = "set") <=> (setCount[r] = 1)
        /\ (kind[r] = "live" /\ relaypc[r] = "ended") => setCount[r] = 1

C6_Witness ==
    /\ kind[1] = "live" /\ relaypc[1] = "ended" /\ source[1] = "exhausted"
    /\ kind[2] = "live" /\ relaypc[2] = "ended" /\ source[2] = "raised"
    /\ setCount[1] = 1 /\ setCount[2] = 1

\* C7 as claimed: when the consumer stops early (the generator is closed or
\* cancelled, or never started), the event is still set and the background
\* task comes to its end.
C7_DisconnectStillSignals ==
    \A r \in Reqs :
        (kind[r] = "live" /\ relaypc[r] = "closed") ~>
            (signal[r] = "set" /\ taskpc[r] = "done")

\* C8 as claimed: when the chain raises, the error event reaches the consumer
\* before the event is set.
C8_ErrorEventBeforeSet ==
    \A r \in Reqs :
        (source[r] = "raised" /\ signal[r] = "set") =>
            ErrorCount(received[r]) = 1

\* C8 as amended: when the chain raises, the relay first sets the event, then
\* yields the single error event, and after that event the generator only
\* ends.
C8_SetBeforeErrorEvent ==
    [][ \A r \in Reqs :
          /\ ErrorCount(received'[r]) > ErrorCount(received[r]) =>
               /\ source[r] = "raised" /\ signal[r] = "set"
               /\ ErrorCount(received'[r]) = 1
               /\ relaypc'[r] = "suspended_err"
          /\ (relaypc[r] = "suspended_err" /\ relaypc'[r] # relaypc[r]) =>
               /\ relaypc'[r] \in {"ended", "closed"}
               /\ received'[r] = received[r]
               /\ signal'[r] = "set" /\ setCount'[r] = 1 ]_vars

C8_Witness ==
    \E r \in Reqs :
        /\ source[r] = "raised" /\ relaypc[r] = "ended"
        /\ signal[r] = "set" /\ ErrorCount(received[r]) = 1

\* C9: when the chain raises after k chunks, the stream read to its end is
\* the k token events of those chunks, in order, then one error event that
\* carries str(e), then the end; the generator raises nothing itself.
C9_TokensThenOneError ==
    \A r \in Reqs :
        /\ relaypc[r] # "raised"
        /\ source[r] = "raised" =>
             /\ TokenFields(received[r]) = emitted[r]
             /\ ErrorCount(received[r]) <= 1
             /\ relaypc[r] = "ended" =>
                  /\ Len(received[r]) = Len(emitted[r]) + 1
                  /\ \A i \in 1..Len(emitted[r]) :
                       /\ IsTokenEvent(received[r][i])
                       /\ ParseEvent(received[r][i]).value = emitted[r][i]
                  /\ IsErrorEvent(received[r][Len(received[r])])
                  /\ ParseEvent(received[r][Len(received[r])]).value = cur[r]

C9_Witness ==
    \E r \in Reqs :
        /\ source[r] = "raised" /\ relaypc[r] = "ended"
        /\ Len(emitted[r]) = 2 /\ Len(received[r]) = 3

\* C10 as claimed: when the chain raises partway, the request's task stores
\* no guide for the step.
C10_NoGuideAfterFailure ==
    \A r \in Reqs :
        (kind[r] = "live" /\ source[r] = "raised" /\ outcome[r] = "saved") =>
            ~Truthy(complete[r])

\* C11 as claimed: once a guide is stored for a step, no later write changes
\* it, whatever the interleaving of the guide requests for the step.
C11_GuideImmutable ==
    [][ \A s \in StepUids :
          (s \in stepRows' /\ Truthy(guide[s])) => guide'[s] = guide[s] ]_vars

\* the live generation of r has begun and its task has not finished
InFlight(r) == kind[r] = "live" /\ taskpc[r] # "done"

\* C12 as claimed: while the guide of a step is absent the chain is invoked
\* at most once for it, also when two requests for the step overlap: of the
\* generations of one step that are under way together, at most one has
\* called the chain.
C12_SingleGeneration ==
    \A s \in StepUids :
        Cardinality({r \in Reqs : /\ stepUid[r] = s /\ InFlight(r)
                                  /\ genCalls[r] > 0}) <= 1

IsPrefix(a, b) == Len(a) <= Len(b) /\ SubSeq(b, 1, Len(a)) = a

\* C13: overlapping generations of one step do not corrupt each other.  Each
\* request's list holds chunks of its own chain only, its task joins that list
\* only, and the guide stored for a step is absent, or the one it had before
\* the requests, or the in-order concatenation of all the chunks of one single
\* request that wrote it.
C13_NoMixture ==
    /\ \A r \in Reqs :
         /\ tokens[r] # NoTokens => IsPrefix(tokens[r], emitted[r])
         /\ complete[r] # NULL => complete[r] = Join(emitted[r])
         /\ signal[r] = "set" => source[r] \in {"exhausted", "raised"}
    /\ \A s \in StepUids :
         \/ guide[s] \in InitGuides
         \/ \E r \in Reqs :
              /\ stepUid[r] = s /\ writeCount[r] = 1
              /\ guide[s] = Join(emitted[r])

C13_Witness ==
    /\ kind[1] = "live" /\ kind[2] = "live"
    /\ stepUid[1] = "s1" /\ stepUid[2] = "s1"
    /\ writeCount[1] = 1 /\ writeCount[2] = 1
    /\ emitted[1] = <<TokA>> /\ emitted[2] = <<TokA, TokB>>
    /\ guide["s1"] \in {TokA, TokA \o TokB}

\* C14: append before yield.  In every state of a live generation the list is
\* a prefix of what the chain has delivered, the token events handed to the
\* consumer are a prefix of the list, and the list holds as many chunks as
\* token events were yielded, or exactly one more.
C14_AppendBeforeYield ==
    \A r \in Reqs :
        kind[r] = "live" =>
            LET yielded == TokenFields(received[r]) IN
            /\ IsPrefix(tokens[r], emitted[r])
            /\ IsPrefix(yielded, tokens[r])
            /\ Len(tokens[r]) - Len(yielded) \in {0, 1}

C14_Witness ==
    \E r \in Reqs :
        /\ kind[r] = "live" /\ relaypc[r] = "yield"
        /\ Len(tokens[r]) = 2 /\ Len(TokenFields(received[r])) = 1

\* C15: signal, then read.  The event is set only when every delivered chunk
\* is in the list; the list never changes once the event is set or once the
\* task has read it; the task joins the list, and writes the row, only with
\* the event set.
C15_SignalThenRead ==
    /\ [][ \A r \in Reqs :
             /\ (signal[r] # "set" /\ signal'[r] = "set") =>
                  tokens'[r] = emitted[r]
             /\ tokens'[r] # tokens[r] =>
                  /\ signal[r] # "set" /\ complete[r] = NULL
                  /\ taskpc[r] \in {"none", "created", "waiting"}
             /\ complete'[r] # complete[r] =>
                  signal[r] = "set" /\ complete'[r] = Join(tokens[r])
             /\ writeCount'[r] # writeCount[r] => signal[r] = "set" ]_vars
    /\ [](\A r \in Reqs :
             taskpc[r] \in {"join", "open", "query", "write", "close", "done"}
                 => signal[r] = "set")

C15_Witness ==
    \E r \in Reqs :
        /\ signal[r] = "set" /\ taskpc[r] = "done" /\ writeCount[r] = 1
        /\ Len(tokens[r]) = 2 /\ complete[r] = Join(tokens[r])

\* C16: when the step row is gone at the task's lookup, the task assigns and
\* commits nothing, leaves the rows as they are, hands no exception and no
\* event to anyone, closes its session and comes to its end.
C16_MissingStepSkipsWrite ==
    /\ [][ \A r \in Reqs :
             /\ (loop = Task(r) /\ taskpc[r] = "query"
                              /\ stepUid[r] \notin stepRows) =>
                  /\ taskpc'[r] = "close"
                  /\ outcome'[r] \in {"missing", "failed"}
                  /\ UNCHANGED dbVars
             /\ outcome[r] = "missing" =>
                  /\ writeCount'[r] = 0 /\ outcome'[r] = "missing"
                  /\ raised'[r] = NoError /\ received'[r] = received[r]
                  /\ taskpc'[r] \in {"close", "done"}
                  /\ loop = Task(r) => UNCHANGED dbVars ]_vars
    /\ \A r \in Reqs :
         (outcome[r] = "missing") ~> (taskpc[r] = "done" /\ session[r] = "closed")

C16_Witness ==
    \E r \in Reqs :
        /\ kind[r] = "live" /\ outcome[r] = "missing" /\ taskpc[r] = "done"
        /\ stepUid[r] \notin stepRows /\ guide[stepUid[r]] = NULL
        /\ Len(tokens[r]) = 2 /\ writeCount[r] = 0

\* C17: a failure inside the background task (the session constructor, the
\* lookup or the commit raising) stays inside the task.  The task ends with
\* no unhandled exception, no step of the task touches the stream or the
\* result of the call, and a stream read to its end holds, whatever the
\* task's outcome, one token event per delivered chunk and an error event
\* only when the chain itself raised.
C17_TaskFailureContained ==
    /\ [][ \A r \in Reqs :
             (taskpc[r] # "none" /\ taskpc'[r] # taskpc[r]) =>
                 UNCHANGED <<received, relaypc, raised, kind>> ]_vars
    /\ [](\A r \in Reqs :
             /\ taskpc[r] # "crashed"
             /\ (outcome[r] = "failed" /\ relaypc[r] = "ended") =>
                  /\ raised[r] = NoError
                  /\ TokenFields(received[r]) = emitted[r]
                  /\ Len(received[r]) =
                       Len(emitted[r]) + (IF source[r] = "raised" THEN 1 ELSE 0))
    /\ \A r \in Reqs : (outcome[r] = "failed") ~> (taskpc[r] = "done")

C17_Witness ==
    \E r \in Reqs :
        /\ outcome[r] = "failed" /\ taskpc[r] = "done" /\ session[r] = "closed"
        /\ relaypc[r] = "ended" /\ source[r] = "exhausted"
        /\ Len(received[r]) = 2 /\ ErrorCount(received[r]) = 0

\* C18: the background task works on a session of its own.  It opens it only
\* after the event is set, its lookup and its commit run on that open session
\* whatever the state of the session of get_db, and no step of the task
\* touches the session of get_db.
C18_OwnSession ==
    /\ [][ \A r \in Reqs :
             /\ writeCount'[r] # writeCount[r] => session[r] = "open"
             /\ (taskpc[r] # "none" /\ taskpc'[r] # taskpc[r]) =>
                  reqdb'[r] = reqdb[r] ]_vars
    /\ [](\A r \in Reqs :
             /\ session[r] # "none" => signal[r] = "set"
             /\ taskpc[r] \in {"query", "write", "close"} => session[r] = "open")

\* the session of get_db is closed while the generator still waits after its
\* error event, so it was closed when get_step_guide returned, before the
\* event was set; the guide is written all the same
C18_Witness ==
    \E r \in Reqs :
        /\ reqdb[r] = "closed" /\ relaypc[r] = "suspended_err"
        /\ writeCount[r] = 1 /\ taskpc[r] = "done"
        /\ Len(tokens[r]) = 1 /\ guide[stepUid[r]] = Join(tokens[r])

\* C19: a call that takes the live path has created exactly one background
\* task, any other call none, and a task commits the guide at most once.
C19_OneTaskOneWrite ==
    \A r \in Reqs :
        /\ taskCount[r] = (IF kind[r] = "live" THEN 1 ELSE 0)
        /\ (taskpc[r] # "none") <=> (taskCount[r] = 1)
        /\ writeCount[r] <= 1
        /\ writeCount[r] = 1 => (kind[r] = "live" /\ outcome[r] = "saved")

C19_Witness ==
    /\ kind[1] = "live" /\ kind[2] = "live"
    /\ taskCount[1] = 1 /\ taskCount[2] = 1
    /\ taskpc[1] = "done" /\ taskpc[2] = "done"
    /\ writeCount[1] = 1 /\ writeCount[2] = 1

\* C20: the assistant stream.  call_roadmap_assistant raises the not-found
\* exception, and returns no generator, exactly when the roadmap does not
\* resolve; otherwise the stream is one token event per delivered chunk, in
\* order, followed by exactly one error event when the chain raised and by
\* none when it did not, and nothing is raised to the consumer; no step of an
\* assistant call creates a list, an event or a task, or writes a row.
C20_AssistantStream ==
    /\ [][ \A r \in Reqs :
             (akind[r] = "idle" /\ akind'[r] # "idle") =>
                 (auid'[r] \notin roadmapRows <=> araised'[r] = RoadmapNotFound)
         ]_vars
    /\ [][ assistVars' # assistVars =>
             UNCHANGED <<dbVars, reqVars, relayVars, taskVars>> ]_vars
    /\ [](\A r \in Reqs :
             /\ araised[r] # NoError =>
                  /\ akind[r] = "notfound" /\ apc[r] = "none"
                  /\ asource[r] = "none" /\ areceived[r] = <<>>
             /\ akind[r] = "stream" =>
                  LET k == Len(aemitted[r])
                      e == IF asource[r] = "raised" THEN 1 ELSE 0
                  IN /\ araised[r] = NoError
                     /\ Len(areceived[r]) = k + e
                     /\ \A i \in 1..k :
                          /\ IsTokenEvent(areceived[r][i])
                          /\ ParseEvent(areceived[r][i]).value = aemitted[r][i]
                     /\ e = 1 =>
                          /\ IsErrorEvent(areceived[r][k + 1])
                          /\ ParseEvent(areceived[r][k + 1]).value \in ErrMsgs)

C20_Witness ==
    /\ akind[1] = "stream" /\ apc[1] = "ended" /\ asource[1] = "raised"
    /\ Len(aemitted[1]) = 2 /\ Len(areceived[1]) = 3
    /\ akind[2] = "notfound" /\ araised[2] = RoadmapNotFound /\ auid[2] = "m1"

\* C28: an empty generation is not cached.  A task whose list joins to no
\* text (no chunk, only empty chunks, or the chain raising before its first
\* chunk) commits the empty string to the guide column; a later call for a
\* step whose guide is the empty string takes the live path, creates a task
\* and, once its stream is started, calls the chain again instead of
\* replaying.
C28_EmptyNotCached ==
    /\ [][ \A r \in Reqs :
             /\ (loop = Task(r) /\ taskpc[r] = "write"
                    /\ Join(tokens[r]) = <<>> /\ writeCount'[r] = 1) =>
                  guide'[stepUid[r]] = <<>>
             /\ (kind[r] = "idle" /\ kind'[r] # "idle"
                    /\ stepUid'[r] \in stepRows
                    /\ guide[stepUid'[r]] = <<>>) =>
                  /\ kind'[r] = "live" /\ cached'[r] = <<>>
                  /\ taskCount'[r] = 1 /\ pos'[r] = 0
             /\ (kind[r] = "live" /\ relaypc[r] = "unstarted"
                    /\ relaypc'[r] = "await") =>
                  genCalls'[r] = genCalls[r] + 1 ]_vars
    /\ [](\A r \in Reqs : cached[r] = <<>> => kind[r] # "hit")

\* the first request was delivered one empty chunk and its task stored the
\* empty string; the second request found it and called the chain again
C28_Witness ==
    /\ emitted[1] = <<TokE>> /\ source[1] = "exhausted"
    /\ outcome[1] = "saved" /\ complete[1] = <<>>
    /\ stepUid[2] = stepUid[1] /\ cached[2] = <<>>
    /\ kind[2] = "live" /\ genCalls[2] = 1 /\ genCalls[1] = 1

\* C30: the background task releases its session.  Whatever its outcome
\* (guide written, step missing, lookup or commit raising), a task that has
\* come to its end holds no open session: a session the task opened is closed
\* by the step that ends the task, and is not closed in any other way.
C30_SessionReleased ==
    /\ [](\A r \in Reqs :
             taskpc[r] = "done" =>
                 /\ session[r] # "open"
                 /\ outcome[r] \in {"saved", "missing", "failed"}
                 /\ session[r] = "none" => outcome[r] = "failed")
    /\ [][ \A r \in Reqs :
             (session[r] = "open" /\ session'[r] # "open") =>
                 (session'[r] = "closed" /\ taskpc'[r] = "done") ]_vars

\* one task wrote its guide and the other found its step row gone; both have
\* ended with their sessions closed
C30_Witness ==
    \E r, q \in Reqs :
        /\ taskpc[r] = "done" /\ outcome[r] = "saved" /\ session[r] = "closed"
        /\ taskpc[q] = "done" /\ outcome[q] = "missing" /\ session[q] = "closed"

\* call r is made in this step
CallMade(r) == cpc[r] = "idle" /\ cpc'[r] # "idle"
\* no row of any table changes in this step
StorageUnchanged == UNCHANGED <<dbVars, tableVars, userRows>>

\* C21: the quota rejection.  A create_roadmap or create_subroadmap call made
\* by a user who owns three or more roadmaps (sub-roadmaps count: they are
\* roadmap rows) ends in that step with RoadmapCreatorMaxCountException,
\* without a call of the chain and with every table as it was; and a call
\* rejected so never invokes the chain, returns nothing and has added no
\* roadmap, step or tag.
C21_QuotaRejection ==
    /\ [][ \A r \in Reqs :
             (/\ CallMade(r)
              /\ cop'[r] \in {"create_roadmap", "create_subroadmap"}
              /\ Cardinality({m \in roadmapRows : roadmapUser[m] = cuser'[r]})
                     >= RoadmapQuota) =>
                 /\ cerr'[r] = "RoadmapCreatorMaxCountException"
                 /\ cpc'[r] = "done" /\ cinvoked'[r] = 0
                 /\ StorageUnchanged ]_vars
    /\ [](\A r \in Reqs :
             cerr[r] = "RoadmapCreatorMaxCountException" =>
                 /\ cinvoked[r] = 0 /\ cret[r] = "none" /\ cpc[r] = "done"
                 /\ NewRoadmapUid[r] \notin roadmapRows
                 /\ NewStepUid[r] \notin stepRows
                 /\ NewStepUid[r] \notin tagRows)

\* u1, who had two roadmaps, was given a third by the first call; the second
\* call, for a sub-roadmap of one of u1's steps, is rejected
C21_Witness ==
    /\ cop[1] = "create_roadmap" /\ cuser[1] = "u1" /\ cret[1] = "m3"
    /\ cop[2] = "create_subroadmap" /\ cuser[2] = "u1" /\ carg[2] \in stepRows
    /\ cerr[2] = "RoadmapCreatorMaxCountException"
    /\ cinvoked[2] = 0 /\ "m4" \notin roadmapRows
    /\ Cardinality({m \in roadmapRows : roadmapUser[m] = "u1"}) = 3

\* the operations that change a roadmap or its steps
Mutating == {"toggle_bookmark", "delete_roadmap", "create_subroadmap",
             "add_learning_resource", "remove_learning_resource"}
\* the creator of the roadmap that operation op on uid a is about (NoUser
\* when there is no such roadmap)
CreatorOf(op, a) ==
    IF op = "delete_roadmap"
    THEN (IF a \in roadmapRows THEN roadmapUser[a] ELSE NoUser)
    ELSE IF op = "remove_learning_resource"
    THEN (IF \E p \in resRows : p[1] = a /\ p[2] \in stepRows
          THEN roadmapUser[RoadmapOf[(CHOOSE p \in resRows : p[1] = a)[2]]]
          ELSE NoUser)
    ELSE (IF a \in stepRows THEN roadmapUser[RoadmapOf[a]] ELSE NoUser)

\* C22: creator-only mutation.  A toggle_bookmark, delete_roadmap,
\* create_subroadmap, add_learning_resource or remove_learning_resource call
\* whose current user is not the creator of the roadmap concerned fails: the
\* step that ends its work raises an exception and changes no row.
C22_CreatorOnly ==
    [][ \A r \in Reqs :
          (/\ cpc[r] \in {"idle", "model"}
           /\ cpc'[r] \in {"returned", "done"}
           /\ cop'[r] \in Mutating
           /\ cuser'[r] # CreatorOf(cop'[r], carg'[r])) =>
              (cerr'[r] # "none" /\ StorageUnchanged) ]_vars

\* C23: the error outcomes of delete_roadmap.  A call for a uid that no
\* roadmap has raises EntityNotFoundException, a call for a roadmap of
\* another user raises ForbiddenException, and a call that raises either
\* leaves every roadmap, step and relation row in place.
C23_DeleteErrors ==
    [][ \A r \in Reqs :
          (CallMade(r) /\ cop'[r] = "delete_roadmap") =>
              /\ carg'[r] \notin roadmapRows =>
                     cerr'[r] = "EntityNotFoundException"
              /\ (carg'[r] \in roadmapRows
                     /\ roadmapUser[carg'[r]] # cuser'[r]) =>
                     cerr'[r] = "ForbiddenException"
              /\ cerr'[r] \in {"EntityNotFoundException", "ForbiddenException"} =>
                     (StorageUnchanged /\ cpc'[r] = "done") ]_vars

\* one call named a roadmap that does not exist, the other a roadmap of
\* another user; both roadmaps of the start are still stored
C23_Witness ==
    \E r, q \in Reqs :
        /\ cop[r] = "delete_roadmap" /\ cerr[r] = "EntityNotFoundException"
        /\ cop[q] = "delete_roadmap" /\ cerr[q] = "ForbiddenException"
        /\ carg[q] \in roadmapRows /\ roadmapUser[carg[q]] # cuser[q]
        /\ roadmapRows = {"m1", "m2"} /\ stepRows = {"s1", "s2"}

C25_SubroadmapCascade ==
    [][ \A r, q \in Reqs :
          (/\ CallMade(r) /\ cop'[r] = "delete_roadmap" /\ cerr'[r] = "none"
           /\ cop[q] = "create_subroadmap" /\ cpc[q] = "done"
           /\ cerr[q] = "none" /\ RoadmapOf[carg[q]] = carg'[r]) =>
              /\ carg'[r] \notin roadmapRows'
              /\ cret[q] \notin roadmapRows'
              /\ \A p \in relRows' : p[1] # carg'[r] /\ p[2] # carg'[r] ]_vars

\* C26: the roadmap quota.  No user owns more than three roadmap rows,
\* sub-roadmaps included, however the create calls overlap.
C26_QuotaInvariant ==
    \A u \in Users :
        Cardinality({m \in roadmapRows : roadmapUser[m] = u}) <= RoadmapQuota

\* C27: the resource recommendation cache.  A recommend_learning_resources
\* call for a step that has stored resources returns exactly their ids in
\* that step, without a call of the chain and with every table as it was;
\* and when the chain raises, the call ends with ModelInvocationException
\* (never with the chain's own exception) and no resource of that call is
\* stored.
C27_RecommendCache ==
    /\ [][ \A r \in Reqs :
             /\ (/\ CallMade(r) /\ cop'[r] = "recommend_learning_resources"
                 /\ carg'[r] \in stepRows
                 /\ \E p \in resRows : p[2] = carg'[r]) =>
                    /\ clist'[r] = {p[1] : p \in {q \in resRows : q[2] = carg'[r]}}
                    /\ cinvoked'[r] = 0 /\ cerr'[r] = "none"
                    /\ cpc'[r] = "done" /\ StorageUnchanged
             /\ (/\ cop[r] = "recommend_learning_resources"
                 /\ cpc[r] = "model" /\ cerr'[r] # "none") =>
                    /\ cerr'[r] \in {"ModelInvocationException", "IntegrityError"}
                    /\ StorageUnchanged /\ clist'[r] = {} ]_vars
    /\ [](\A r \in Reqs :
             cerr[r] = "ModelInvocationException" =>
                 /\ cop[r] = "recommend_learning_resources"
                 /\ cinvoked[r] = 1 /\ clist[r] = {}
                 /\ \A p \in resRows : p[1] # NewResourceUid[r])

\* the first call asked the chain and stored its one url; the second call,
\* for the same step, returned that resource without asking the chain
C27_Witness ==
    /\ cop[1] = "recommend_learning_resources" /\ cinvoked[1] = 1
    /\ clist[1] = {"r2"} /\ cpc[1] = "done"
    /\ cop[2] = "recommend_learning_resources" /\ carg[2] = carg[1]
    /\ cinvoked[2] = 0 /\ clist[2] = {"r2"} /\ cpc[2] = "done"
    /\ resRows = {<<"r2", carg[1]>>}

\* C29: toggle_bookmark.  A call by the creator of the step's roadmap
\* succeeds; a call that succeeds inverts the flag of its step, returns the
\* inverted flag, and changes no other flag, no other column and no other
\* row; and after two successful calls for the same step the flag is what
\* it was before the first (the opposite of what the first returned).
C29_ToggleInvolution ==
    /\ [][ \A r \in Reqs :
             (CallMade(r) /\ cop'[r] = "toggle_bookmark") =>
                /\ (carg'[r] \in stepRows
                      /\ roadmapUser[RoadmapOf[carg'[r]]] = cuser'[r]) =>
                         cerr'[r] = "none"
                /\ cerr'[r] = "none" =>
                     /\ bookmark'[carg'[r]] = ~bookmark[carg'[r]]
                     /\ cret'[r] = (IF bookmark'[carg'[r]] THEN "True" ELSE "False")
                     /\ \A s \in StepIds \ {carg'[r]} : bookmark'[s] = bookmark[s]
                     /\ UNCHANGED <<dbVars, roadmapUser, subRoadmap, relRows,
                                    tagRows, resRows, userRows>> ]_vars
    /\ []((/\ cop[1] = "toggle_bookmark" /\ cop[2] = "toggle_bookmark"
           /\ carg[1] = carg[2] /\ cerr[1] = "none" /\ cerr[2] = "none"
           /\ cpc[2] = "done") =>
              /\ cret[2] # cret[1]
              /\ bookmark[carg[1]] = (cret[1] = "False"))

\* the creator has toggled the bookmarked first step twice: the first call
\* returned False, the second True, and the step is bookmarked again
C29_Witness ==
    /\ cop[1] = "toggle_bookmark" /\ cop[2] = "toggle_bookmark"
    /\ carg[1] = "s1" /\ carg[2] = "s1"
    /\ cuser[1] = "u1" /\ cuser[2] = "u1"
    /\ cret[1] = "False" /\ cret[2] = "True" /\ bookmark["s1"]

====
